---- MODULE Spec2Model ----
(***************************************************************************)
(* A model of cvat/apps/lambda_manager/views.py: the attribute            *)
(* compatibility check of LambdaFunction.invoke, the label/attribute      *)
(* mapping and response filtering of LambdaFunction.invoke, and the job   *)
(* run of LambdaJob (detection sweep and Re-ID track assembly) with its   *)
(* progress reporting and cooperative cancellation.                       *)
(*                                                                         *)
(* Six specifications share the module:                                    *)
(*   SpecAttr    check_attr_value applied to every bounded input triple    *)
(*   SpecInvoke  one detector call: mapping, filtering, persisting         *)
(*   Spec        one LambdaJob run (detector or reid) on a worker          *)
(*   SpecCall    one synchronous call up to the gateway                    *)
(*   SpecLoad    the construction of a LambdaFunction                      *)
(*   SpecQueue   the request queue: enqueue, worker, fetch, destroy        *)
(***************************************************************************)
EXTENDS Integers, Sequences, FiniteSets, TLC

VARIABLES
    \* ---- SpecAttr: one call of check_attr_value
    av_value,       \* the returned attribute value, a sequence of characters
    av_func,        \* func_attr["input_type"]
    av_db,          \* db_attr["input_type"], or NoAttr when db_attr is None
    av_result,      \* "pending" before the call, then "accept" / "reject"
    \* ---- SpecInvoke: one detector call of LambdaFunction.invoke and the
    \*      conversion of what it returns in LambdaJob._call_detector
    iv_task_labels, \* names of the task's labels (db_task.label_set)
    iv_task_attrs,  \* task_attributes: task label -> attribute name -> input_type
    iv_func_attrs,  \* self.func_attributes: function label -> declared attributes
    iv_mapping,     \* data["mapping"]: NoMapping, or function label -> entry
    iv_response,    \* what the gateway returns: a list of items
    iv_pc,          \* "call" -> "returned" -> "persisted"
    iv_returned,    \* what LambdaFunction.invoke returns
    iv_tags,        \* results.data["tags"] after the annotations are converted
    iv_shapes,      \* results.data["shapes"] after the annotations are converted
    \* ---- Spec: one run of LambdaJob.__call__ on a worker
    kind,           \* function.kind
    cleanup,        \* the cleanup argument
    has_job,        \* db_job is not None (job scope) / None (task scope)
    size,           \* db_task.data.size
    start_frame,    \* db_task.data.start_frame
    step,           \* db_task.data.get_frame_step()
    segment,        \* db_job.segment.frame_set (absolute frames)
    deleted_frames, \* db_task.data.deleted_frames
    store,          \* the annotation store of the scope: shapes, tags, tracks
    job_exists,     \* the rq job record exists (FALSE once it is deleted)
    progress,       \* job.meta["progress"]
    pc,             \* where the worker is in the run
    frame_set,      \* cls._get_frame_set(db_task, db_job)
    idx,            \* position of the loop in frame_set (from 1)
    results,        \* Results.data["shapes"], the accumulator
    annotations,    \* what function.invoke returned for the current frame
    data,           \* _call_reid: the data read from the store
    boxes_by_frame, \* _call_reid: frame -> indices (in data.shapes) of its boxes
    path_id,        \* _call_reid: box index -> box["path_id"], NoPath when unset
    paths,          \* _call_reid: paths[path_id + 1] = box indices of the path
    matchings,      \* _call_reid: what the matcher returned, call by call
    data_read,      \* _call_reid: the data as it was read (data is rewritten)
    \* ---- history of the run, read by the properties only
    progress_log,   \* the last two values written to job.meta["progress"]
    commits,        \* the writes to the annotation store, in order
    invocations,    \* the frames (pairs) the gateway was invoked for, in order
    after_delete,   \* gateway invocations started after the job record was deleted
    seen_deleted,   \* <<number of commits made>> when a poll found the job deleted
    gateway_log,    \* _call_detector: every annotation function.invoke returned
    \* One synchronous call, FunctionViewSet.call -> LambdaFunction.invoke
    \* (SpecCall)
    cl_kind,        \* self.kind of the function called
    cl_request,     \* request.data: job, task, quality and the arguments
    cl_db,          \* the jobs table: the segment and the task of the job
    cl_result,      \* how the call ended
    \* The construction of a LambdaFunction (SpecLoad)
    ld_spec,        \* the 'spec' annotation, parsed
    ld_result,      \* "pending", "loaded" or "ValidationError"
    ld_function,    \* self.labels and self.func_attributes, once assigned
    \* The request queue (SpecQueue)
    q_jobs,         \* the job records of the queue, by id
    q_next_id,      \* the id of the next job created
    q_callers,      \* where each running enqueue call stands
    q_response,     \* the response of the last fetch, cancel or enqueue
    q_interleaved   \* some enqueue ran while another was between scan and submit

attrVars == <<av_value, av_func, av_db, av_result>>

invokeVars == <<iv_task_labels, iv_task_attrs, iv_func_attrs, iv_mapping,
                iv_response, iv_pc, iv_returned, iv_tags, iv_shapes>>

taskVars == <<kind, cleanup, has_job, size, start_frame, step, segment,
              deleted_frames>>

reidVars == <<data, boxes_by_frame, path_id, paths, matchings, data_read>>

runVars == <<taskVars, store, job_exists, progress, pc, frame_set, idx, results,
             annotations, reidVars, progress_log, commits, invocations,
             after_delete, seen_deleted, gateway_log>>

callVars == <<cl_kind, cl_request, cl_db, cl_result>>

loadVars == <<ld_spec, ld_result, ld_function>>

queueVars == <<q_jobs, q_next_id, q_callers, q_response, q_interleaved>>

vars == <<attrVars, invokeVars, runVars, callVars, loadVars, queueVars>>

\* Python's None where an attribute or a mapping is missing, and {}
NoAttr == "None"
EmptyDict == [k \in {} |-> k]
\* data.get("mapping", {}) after the None values are dropped (line 218)
NoMapping == EmptyDict

(***************************************************************************)
(* The values the variables of a specification hold while another          *)
(* specification runs.                                                     *)
(***************************************************************************)
AttrIdle ==
    /\ av_value = <<>>
    /\ av_func = "other"
    /\ av_db = NoAttr
    /\ av_result = "pending"

InvokeIdle ==
    /\ iv_task_labels = {}
    /\ iv_task_attrs = EmptyDict
    /\ iv_func_attrs = EmptyDict
    /\ iv_mapping = NoMapping
    /\ iv_response = <<>>
    /\ iv_pc = "idle"
    /\ iv_returned = <<>>
    /\ iv_tags = <<>>
    /\ iv_shapes = <<>>

\* A field that is None (or missing where .get() is used) is <<>>, a given
\* one is <<value>>
None == <<>>

CallIdle ==
    /\ cl_kind = "unknown"
    /\ cl_request = [job |-> None, task |-> None, quality |-> None,
                     data |-> EmptyDict]
    /\ cl_db = EmptyDict
    /\ cl_result = [outcome |-> "idle", field |-> ""]

LoadIdle ==
    /\ ld_spec = <<>>
    /\ ld_result = "idle"
    /\ ld_function = [labels |-> <<>>, func_attributes |-> EmptyDict]

QueueIdle ==
    /\ q_jobs = EmptyDict
    /\ q_next_id = 0
    /\ q_callers = EmptyDict
    /\ q_response = [op |-> "idle", pk |-> 0, outcome |-> "", status |-> ""]
    /\ q_interleaved = FALSE

NoPath == -1
NotSeen == <<>>
EmptyData == [shapes |-> <<>>, tags |-> <<>>, tracks |-> <<>>]

RunIdle ==
    /\ kind = "unknown"
    /\ cleanup = FALSE
    /\ has_job = FALSE
    /\ size = 0
    /\ start_frame = 0
    /\ step = 1
    /\ segment = {}
    /\ deleted_frames = {}
    /\ store = EmptyData
    /\ job_exists = FALSE
    /\ progress = 0
    /\ pc = "idle"
    /\ frame_set = <<>>
    /\ idx = 0
    /\ results = <<>>
    /\ annotations = <<>>
    /\ data = EmptyData
    /\ boxes_by_frame = EmptyDict
    /\ path_id = <<>>
    /\ paths = <<>>
    /\ matchings = <<>>
    /\ data_read = EmptyData
    /\ progress_log = <<>>
    /\ commits = <<>>
    /\ invocations = <<>>
    /\ after_delete = 0
    /\ seen_deleted = NotSeen
    /\ gateway_log = <<>>

(***************************************************************************)
(* Bounds of the model.                                                    *)
(***************************************************************************)
MaxValueLen == 2
MaxItems == 2
\* Small tasks (at most SmallSize frames) take every scope, every set of
\* deleted frames and every detector yield of 0..MaxYield items a frame;
\* large tasks (around the batch boundaries, up to TestFrames frames) are
\* swept whole with a detector that yields one item a frame.
SmallSize == 3
TestFrames == 250
MaxYield == 1
\* A Re-ID run finds at most MaxBoxes rectangles in its scope.
MaxBoxes == 4
\* The task of a synchronous call has CallSize frames.
CallSize == 2
\* A function descriptor has at most MaxSpec labels of at most MaxSpec
\* attributes each.
MaxSpec == 2
\* The queue sees at most MaxJobs jobs, and MaxCallers requests at a time.
MaxJobs == 3
MaxCallers == 2

(***************************************************************************)
(* Strings are sequences of one-character strings, so that isnumeric and   *)
(* split are computed character by character as Python computes them.      *)
(***************************************************************************)
Digits == {"1"}
Chars == {"1", "a", " ", "\t", "\n"}

TrueStr == <<"t", "r", "u", "e">>
FalseStr == <<"f", "a", "l", "s", "e">>

BoundedSeq(S, n) == UNION {[1..k -> S] : k \in 0..n}

Values == BoundedSeq(Chars, MaxValueLen) \cup {TrueStr, FalseStr}

\* "other" stands for an input type the function or the task declares that is
\* none of the five known ones.
InputTypes == {"number", "checkbox", "select", "radio", "text", "other"}

\* str.isnumeric(): at least one character and every character numeric.
isnumeric(value) ==
    /\ Len(value) > 0
    /\ \A i \in 1..Len(value) : value[i] \in Digits

\* str.split(sep) for a one-character separator: the pieces between the
\* occurrences of sep (an empty string yields one empty piece).
RECURSIVE split(_, _)
split(value, sep) ==
    IF \A i \in 1..Len(value) : value[i] # sep
    THEN <<value>>
    ELSE LET k == CHOOSE i \in 1..Len(value) :
                      /\ value[i] = sep
                      /\ \A j \in 1..(i-1) : value[j] # sep
         IN <<SubSeq(value, 1, k-1)>> \o split(SubSeq(value, k+1, Len(value)), sep)

\* check_attr_value with the cross-type checkbox branch left out, so that a
\* checkbox attribute falls through to the final rejection.
check_attr_value_no_checkbox_branch(value, func_attr_type, db_attr_type) ==
    IF db_attr_type = NoAttr THEN FALSE
    ELSE IF func_attr_type = db_attr_type THEN
        IF func_attr_type = "number" THEN isnumeric(value)
        ELSE IF func_attr_type = "checkbox" THEN value \in {TrueStr, FalseStr}
        ELSE IF func_attr_type \in {"select", "radio", "text"} THEN TRUE
        ELSE FALSE
    ELSE
        IF func_attr_type = "number"
        THEN db_attr_type \in {"select", "radio", "text"} /\ isnumeric(value)
        ELSE IF func_attr_type = "text"
        THEN \/ db_attr_type = "text"
             \/ (db_attr_type \in {"select", "radio"} /\ Len(split(value, " ")) = 1)
        ELSE IF func_attr_type = "select" THEN db_attr_type \in {"radio", "text"}
        ELSE IF func_attr_type = "radio" THEN db_attr_type \in {"select", "text"}
        ELSE FALSE

\* check_attr_value with the numeric test of the cross-type number branch
\* forgotten.
check_attr_value_number_unchecked(value, func_attr_type, db_attr_type) ==
    IF db_attr_type = NoAttr THEN FALSE
    ELSE IF func_attr_type = db_attr_type THEN
        IF func_attr_type = "number" THEN isnumeric(value)
        ELSE IF func_attr_type = "checkbox" THEN value \in {TrueStr, FalseStr}
        ELSE IF func_attr_type \in {"select", "radio", "text"} THEN TRUE
        ELSE FALSE
    ELSE
        IF func_attr_type = "number"
        THEN db_attr_type \in {"select", "radio", "text"}
        ELSE IF func_attr_type = "text"
        THEN \/ db_attr_type = "text"
             \/ (db_attr_type \in {"select", "radio"} /\ Len(split(value, " ")) = 1)
        ELSE IF func_attr_type = "select" THEN db_attr_type \in {"radio", "text"}
        ELSE IF func_attr_type = "radio" THEN db_attr_type \in {"select", "text"}
        ELSE IF func_attr_type = "checkbox" THEN value \in {TrueStr, FalseStr}
        ELSE FALSE

check_attr_value(value, func_attr_type, db_attr_type) ==
    IF db_attr_type = NoAttr THEN FALSE
    ELSE IF func_attr_type = db_attr_type THEN
        IF func_attr_type = "number" THEN isnumeric(value)
        ELSE IF func_attr_type = "checkbox" THEN value \in {TrueStr, FalseStr}
        ELSE IF func_attr_type \in {"select", "radio", "text"} THEN TRUE
        ELSE FALSE
    ELSE
        IF func_attr_type = "number"
        THEN db_attr_type \in {"select", "radio", "text"} /\ isnumeric(value)
        ELSE IF func_attr_type = "text"
        THEN \/ db_attr_type = "text"
             \/ (db_attr_type \in {"select", "radio"} /\ Len(split(value, " ")) = 1)
        ELSE IF func_attr_type = "select" THEN db_attr_type \in {"radio", "text"}
        ELSE IF func_attr_type = "radio" THEN db_attr_type \in {"select", "text"}
        ELSE IF func_attr_type = "checkbox" THEN value \in {TrueStr, FalseStr}
        ELSE FALSE

(***************************************************************************)
(* LambdaFunction.invoke for a detector: the label and attribute mapping,  *)
(* the supported attributes and the filtering of the gateway's response.   *)
(* A partial dictionary is a function on the set of its keys.              *)
(***************************************************************************)

LabelNames == {"car", "person"}
AttrNames == {"color", "age"}

\* mapping_by_default: every task label to itself, 'attributes': {}
mapping_by_default(task_labels) ==
    [l \in task_labels |-> [name |-> l, attributes |-> EmptyDict]]

\* The mapping after lines 248-254: the default when none (or an empty one)
\* is supplied, otherwise the entries whose target is a label of the task.
final_mapping(mapping, task_labels) ==
    IF DOMAIN mapping = {}
    THEN mapping_by_default(task_labels)
    ELSE [k \in {l \in DOMAIN mapping : mapping[l].name \in task_labels} |-> mapping[k]]

\* attr_mapping and the label mapping of lines 256-257
attr_mapping(fm) == [l \in DOMAIN fm |-> fm[l].attributes]
label_mapping(fm) == [l \in DOMAIN fm |-> fm[l].name]

\* The attributes func_attrs declares under a name (line 387)
declared(func_attrs, name) ==
    SelectSeq(func_attrs, LAMBDA fa : fa.name = name)

\* supported_attrs[func_label] (lines 259-273): function attribute name ->
\* input type of the task attribute it is mapped to, for the declared
\* attributes so mapped to an attribute the task label has.
supported_attrs(fm, func_attributes, task_attributes, func_label) ==
    LET mapped_label == label_mapping(fm)[func_label]
        mapped_attributes == attr_mapping(fm)[func_label]
        func_attrs == func_attributes[func_label]
        names == {func_attrs[i].name : i \in 1..Len(func_attrs)}
    IN [a \in {n \in names : /\ n \in DOMAIN mapped_attributes
                              /\ mapped_attributes[n] \in DOMAIN task_attributes[mapped_label]}
           |-> task_attributes[mapped_label][mapped_attributes[a]]]

\* The attributes of one item that survive (lines 379-396), renamed.
RECURSIVE filter_attributes(_, _, _, _)
filter_attributes(attributes, mapped_attributes, func_attrs, supported) ==
    IF attributes = <<>> THEN <<>>
    ELSE LET attr == Head(attributes)
             rest == filter_attributes(Tail(attributes), mapped_attributes,
                                       func_attrs, supported)
             func_attr == declared(func_attrs, attr.name)
             db_attr == IF attr.name \in DOMAIN supported
                        THEN supported[attr.name] ELSE NoAttr
         IN IF attr.name \notin DOMAIN mapped_attributes THEN rest
            ELSE IF func_attr = <<>> THEN rest
            ELSE IF check_attr_value(attr.value, func_attr[1].input_type, db_attr)
                 THEN <<[attr EXCEPT !.name = mapped_attributes[attr.name]]>> \o rest
                 ELSE rest

\* response_filtered at the end of the loop of lines 373-400
RECURSIVE response_filtered(_, _, _, _)
response_filtered(response, fm, func_attributes, task_attributes) ==
    IF response = <<>> THEN <<>>
    ELSE LET item == Head(response)
             rest == response_filtered(Tail(response), fm, func_attributes,
                                       task_attributes)
         IN IF item.label \notin DOMAIN fm THEN rest
            ELSE <<[item EXCEPT
                      !.attributes = filter_attributes(item.attributes,
                            attr_mapping(fm)[item.label],
                            func_attributes[item.label],
                            supported_attrs(fm, func_attributes, task_attributes,
                                            item.label)),
                      !.label = label_mapping(fm)[item.label]]>> \o rest

\* What invoke returns for a detector (lines 372-402): `response` is rebound
\* to response_filtered inside the loop, after an item is kept (line 400); when
\* no item is kept it is still the gateway's list.
invoke(response, mapping, task_labels, task_attributes, func_attributes) ==
    LET fm == final_mapping(mapping, task_labels)
        kept == response_filtered(response, fm, func_attributes, task_attributes)
    IN IF kept = <<>> THEN response ELSE kept

(***************************************************************************)
(* The conversion of the returned annotations in LambdaJob._call_detector  *)
(* (lines 602-644).  A label's id is written Id(name), an attribute's      *)
(* spec id SpecId(label, attribute).                                        *)
(***************************************************************************)
LabelId(name) == <<"label", name>>
SpecId(label, attr) == <<"spec", label, attr>>

\* attrs of line 607
RECURSIVE persisted_attrs(_, _, _)
persisted_attrs(attributes, label, task_attributes) ==
    IF attributes = <<>> THEN <<>>
    ELSE LET attr == Head(attributes)
             rest == persisted_attrs(Tail(attributes), label, task_attributes)
         IN IF attr.name \in DOMAIN task_attributes[label]
            THEN <<[spec_id |-> SpecId(label, attr.name), value |-> attr.value]>> \o rest
            ELSE rest

\* The tags (is_tag) or shapes appended for a list of annotations.
RECURSIVE converted(_, _, _, _)
converted(annos, task_labels, task_attributes, is_tag) ==
    IF annos = <<>> THEN <<>>
    ELSE LET anno == Head(annos)
             rest == converted(Tail(annos), task_labels, task_attributes, is_tag)
         IN IF anno.label \notin task_labels THEN rest
            ELSE IF (anno.type = "tag") # is_tag THEN rest
            ELSE <<[uid |-> anno.uid,
                    label_id |-> LabelId(anno.label),
                    attributes |-> persisted_attrs(anno.attributes, anno.label, task_attributes),
                    source |-> "auto"]>> \o rest

(***************************************************************************)
(* SpecInvoke: one call.  Init draws the task's labels and attributes, the *)
(* function's declared attributes, the mapping and the gateway's response. *)
(***************************************************************************)
\* A dictionary from a subset of K to V
Dicts(K, V) == UNION {[S -> V] : S \in SUBSET K}

\* The attributes of a task label: name -> input_type
TaskAttrChoices ==
    { EmptyDict,
      [a \in {"color"} |-> "text"],
      [a \in {"color"} |-> "number"] }

\* The attributes the function declares for each of its labels
FuncAttrChoices ==
    { <<>>,
      <<[name |-> "color", input_type |-> "text"],
        [name |-> "age", input_type |-> "text"]>> }

\* 'attributes' of a mapping entry (an entry without the key reads as {})
AttrMapChoices == { EmptyDict, [a \in AttrNames |-> a] }

MappingChoices ==
    Dicts(LabelNames, [name : LabelNames, attributes : AttrMapChoices])

ItemAttrChoices ==
    { <<>>,
      <<[name |-> "color", value |-> <<"a">>]>>,
      <<[name |-> "color", value |-> <<"a">>], [name |-> "age", value |-> <<"a">>]>> }

\* Responses of at most MaxItems items; uid stands for the rest of an item
\* (its points), which nothing rewrites.
ResponseChoices ==
    UNION { { [i \in 1..n |-> [uid |-> i, label |-> ls[i], attributes |-> as[i],
                               type |-> t]]
              : ls \in [1..n -> LabelNames], as \in [1..n -> ItemAttrChoices],
                t \in {"tag", "rectangle"} }
            : n \in 0..MaxItems }

InitInvoke ==
    /\ AttrIdle
    /\ RunIdle
    /\ CallIdle
    /\ LoadIdle
    /\ QueueIdle
    /\ iv_task_labels \in (SUBSET LabelNames) \ {{}}
    /\ iv_task_attrs \in [iv_task_labels -> TaskAttrChoices]
    /\ iv_func_attrs \in [LabelNames -> FuncAttrChoices]
    /\ iv_mapping \in MappingChoices
    /\ iv_response \in ResponseChoices
    /\ iv_pc = "call"
    /\ iv_returned = <<>>
    /\ iv_tags = <<>>
    /\ iv_shapes = <<>>

\* annotations = function.invoke(...)
Invoke ==
    /\ iv_pc = "call"
    /\ iv_returned' = invoke(iv_response, iv_mapping, iv_task_labels,
                             iv_task_attrs, iv_func_attrs)
    /\ iv_pc' = "returned"
    /\ UNCHANGED <<iv_task_labels, iv_task_attrs, iv_func_attrs, iv_mapping,
                   iv_response, iv_tags, iv_shapes>>
    /\ UNCHANGED <<attrVars, runVars, callVars, loadVars, queueVars>>

\* for anno in annotations: ... results.append_tag / results.append_shape
Convert ==
    /\ iv_pc = "returned"
    /\ iv_tags' = converted(iv_returned, iv_task_labels, iv_task_attrs, TRUE)
    /\ iv_shapes' = converted(iv_returned, iv_task_labels, iv_task_attrs, FALSE)
    /\ iv_pc' = "persisted"
    /\ UNCHANGED <<iv_task_labels, iv_task_attrs, iv_func_attrs, iv_mapping,
                   iv_response, iv_returned>>
    /\ UNCHANGED <<attrVars, runVars, callVars, loadVars, queueVars>>

NextInvoke == Invoke \/ Convert

SpecInvoke == InitInvoke /\ [][NextInvoke]_vars

(***************************************************************************)
(* Claims about the mapping and the filtering (checked under SpecInvoke).  *)
(***************************************************************************)
\* The keys of the final label mapping of the call
MappedLabels == DOMAIN final_mapping(iv_mapping, iv_task_labels)

\* The gateway's item an output item stems from
Origin(out) == iv_response[out.uid]

ItemsOf(seq) == {seq[i] : i \in 1..Len(seq)}

\* C6: an item whose label is no key of the final mapping is dropped: no
\* item LambdaFunction.invoke returns, and no tag or shape appended by
\* _call_detector, stems from an item with an unmapped label.
C6_UnmappedLabelDropped ==
    /\ iv_pc \in {"returned", "persisted"}
          => \A out \in ItemsOf(iv_returned) : Origin(out).label \in MappedLabels
    /\ iv_pc = "persisted"
          => \A out \in ItemsOf(iv_tags) \cup ItemsOf(iv_shapes) :
                 Origin(out).label \in MappedLabels

\* The attributes of an item that the default mapping is said to retain:
\* declared by the function, named as an attribute of the task label, and
\* with a value that passes the compatibility check.
RetainedByName(label, attributes) ==
    SelectSeq(attributes, LAMBDA attr :
        /\ declared(iv_func_attrs[label], attr.name) # <<>>
        /\ attr.name \in DOMAIN iv_task_attrs[label]
        /\ check_attr_value(attr.value,
                            declared(iv_func_attrs[label], attr.name)[1].input_type,
                            iv_task_attrs[label][attr.name]))

\* C7: with no mapping supplied, an item whose label is a task label is
\* returned under that label, with exactly its attributes that are declared
\* by the function, named as an attribute of the task label and of a
\* compatible value, under their own names.
C7_DefaultMappingIsIdentity ==
    (iv_pc = "returned" /\ iv_mapping = NoMapping)
        => \A i \in 1..Len(iv_response) :
              iv_response[i].label \in iv_task_labels
                  => \E out \in ItemsOf(iv_returned) :
                        /\ out.uid = i
                        /\ out.label = iv_response[i].label
                        /\ out.attributes = RetainedByName(iv_response[i].label,
                                                           iv_response[i].attributes)

\* C22: every attribute value persisted by a detection call stems from an
\* attribute of the gateway's item that the function declares for the item's
\* label, that the attribute mapping maps to an attribute of the mapped task
\* label, and whose value passed the compatibility check against that
\* attribute; it is persisted under that task attribute.
C22_PersistedAttributesFiltered ==
    iv_pc = "persisted" =>
      \A out \in ItemsOf(iv_tags) \cup ItemsOf(iv_shapes) :
        \A i \in 1..Len(out.attributes) :
          LET persisted == out.attributes[i]
              item == Origin(out)
              fm == final_mapping(iv_mapping, iv_task_labels)
          IN /\ item.label \in DOMAIN fm
             /\ \E k \in 1..Len(item.attributes) :
                  LET attr == item.attributes[k]
                      func_attr == declared(iv_func_attrs[item.label], attr.name)
                      mapped_attributes == attr_mapping(fm)[item.label]
                      mapped_label == label_mapping(fm)[item.label]
                  IN /\ func_attr # <<>>
                     /\ attr.name \in DOMAIN mapped_attributes
                     /\ mapped_attributes[attr.name]
                           \in DOMAIN iv_task_attrs[mapped_label]
                     /\ persisted.spec_id
                           = SpecId(mapped_label, mapped_attributes[attr.name])
                     /\ persisted.value = attr.value
                     /\ check_attr_value(attr.value, func_attr[1].input_type,
                           iv_task_attrs[mapped_label][mapped_attributes[attr.name]])

(***************************************************************************)
(* SpecAttr: the inputs are drawn in Init, CheckAttr applies the function. *)
(***************************************************************************)
InitAttr ==
    /\ InvokeIdle
    /\ RunIdle
    /\ CallIdle
    /\ LoadIdle
    /\ QueueIdle
    /\ av_value \in Values
    /\ av_func \in InputTypes
    /\ av_db \in InputTypes \cup {NoAttr}
    /\ av_result = "pending"

CheckAttr ==
    /\ av_result = "pending"
    /\ av_result' = IF check_attr_value(av_value, av_func, av_db)
                    THEN "accept" ELSE "reject"
    /\ UNCHANGED <<av_value, av_func, av_db>>
    /\ UNCHANGED <<invokeVars, runVars, callVars, loadVars, queueVars>>

NextAttr == CheckAttr

SpecAttr == InitAttr /\ [][NextAttr]_vars

(***************************************************************************)
(* Claims about check_attr_value (checked under SpecAttr).                 *)
(***************************************************************************)
AttrDone == av_result # "pending"

Whitespace == {" ", "\t", "\n"}
NoWhitespace(value) == \A i \in 1..Len(value) : value[i] \notin Whitespace

\* C8 as stated: a checkbox attribute of the function checked against a task
\* attribute of any other input type is rejected whatever its value, "true"
\* and "false" included.
C8_CheckboxCrossTypeAlwaysRejected ==
    (AttrDone /\ av_func = "checkbox" /\ av_db \in InputTypes \ {"checkbox"})
        => av_result = "reject"

\* C8 amended: a checkbox attribute of the function checked against a task
\* attribute of any other input type (number included) is accepted exactly
\* when its value is "true" or "false".
C8_CheckboxCrossTypeAcceptsBooleans ==
    (AttrDone /\ av_func = "checkbox" /\ av_db \in InputTypes \ {"checkbox"})
        => (av_result = "accept" <=> av_value \in {TrueStr, FalseStr})

C8_Witness ==
    /\ AttrDone
    /\ av_func = "checkbox"
    /\ av_db = "number"
    /\ av_value = TrueStr
    /\ av_result = "accept"

\* C9: a text attribute of the function checked against a select or radio
\* task attribute is accepted iff its value holds no whitespace character
\* (space, tab, newline); against number or checkbox it is always rejected.
C9_TextToSelectSingleToken ==
    /\ (AttrDone /\ av_func = "text" /\ av_db \in {"select", "radio"})
            => (av_result = "accept" <=> NoWhitespace(av_value))
    /\ (AttrDone /\ av_func = "text" /\ av_db \in {"number", "checkbox"})
            => av_result = "reject"

\* The compatibility table of C10, written as the set of accepted triples.
TableAccepts(value, ft, dt) ==
    \/ ft = dt /\ ft = "number" /\ isnumeric(value)
    \/ ft = dt /\ ft = "checkbox" /\ value \in {TrueStr, FalseStr}
    \/ ft = dt /\ ft \in {"select", "radio", "text"}
    \/ ft = "number" /\ dt \in {"select", "radio", "text"} /\ isnumeric(value)
    \/ ft = "select" /\ dt \in {"radio", "text"}
    \/ ft = "radio" /\ dt \in {"select", "text"}

\* C10: for a function input type number, select or radio, or equal function
\* and task input types, check_attr_value accepts exactly the triples of the
\* compatibility table; a missing task attribute is rejected for every
\* function input type and value.
C10_AgreesWithTable ==
    /\ (AttrDone /\ av_db = NoAttr) => av_result = "reject"
    /\ (AttrDone /\ av_db # NoAttr
            /\ (av_func \in {"number", "select", "radio"} \/ av_func = av_db))
        => (av_result = "accept" <=> TableAccepts(av_value, av_func, av_db))

C10_Witness ==
    /\ AttrDone
    /\ av_func = "number"
    /\ av_db = "select"
    /\ isnumeric(av_value)
    /\ av_result = "accept"

(***************************************************************************)
(* LambdaJob: one run of a queued job on a worker.                         *)
(***************************************************************************)
\* "if frame and frame % 100 == 0"
BatchSize == 100

\* sorted(...) of a set of integers
RECURSIVE sorted(_)
sorted(S) ==
    IF S = {} THEN <<>>
    ELSE LET m == CHOOSE x \in S : \A y \in S : x <= y
         IN <<m>> \o sorted(S \ {m})

\* A frame set of a job that keeps the segment's absolute frame numbers
get_frame_set_absolute(job, sz, start, stp, seg) ==
    IF job THEN sorted(seg) ELSE [i \in 1..sz |-> i - 1]

\* LambdaJob._get_frame_set: the relative frames of the job's segment in
\* ascending order, or range(db_task.data.size)
get_frame_set(job, sz, start, stp, seg) ==
    IF job
    THEN sorted({(abs_id - start) \div stp : abs_id \in seg})
    ELSE [i \in 1..sz |-> i - 1]

RECURSIVE gcd(_, _)
gcd(a, b) == IF b = 0 THEN a ELSE gcd(b, a % b)

\* num / den is a binary fraction, so the float division is exact
dyadic(num, den) ==
    LET r == den \div gcd(num, den)
    IN \E e \in 0..30 : r = 2^e

\* int(progress * 100) for progress = num / den, 0 < num <= den.  The
\* division and the product are rounded to doubles (relative error 2^-52):
\* when 100 * num / den is no integer the truncation is that of the exact
\* value; when it is an integer k and num / den is inexact the product is k
\* or the double just below it, which truncates to k - 1 (29 / 100 gives 28).
\* Both outcomes are kept.
meta_progress(num, den) ==
    LET k == (num * 100) \div den
    IN IF (num * 100) % den = 0 /\ ~dyadic(num, den) THEN {k - 1, k} ELSE {k}

\* The progress of the detection sweep measured against the scope's frames
detector_progress_of_scope(frame) == meta_progress(frame + 1, Len(frame_set))

\* The window of the progress log after one more write
logged(log, value) ==
    IF Len(log) < 2 THEN Append(log, value) ELSE <<log[2], value>>

\* progress = (frame + 1) / db_task.data.size
detector_progress(frame) == meta_progress(frame + 1, size)

\* LambdaFunction.invoke, lines 275-292: in job scope the frame argument,
\* made absolute, must be a frame of the job's segment
frame_in_job(frame) ==
    (~has_job) \/ (start_frame + frame * step) \in segment

\* job.get_status() in _update_progress: None once the job is deleted
get_status == job_exists

Kinds == {"detector", "reid", "interactor", "tracker", "unknown"}

Geometries == {[start |-> 0, step |-> 1], [start |-> 1, step |-> 2]}

\* The segments of a task of n frames laid out by geometry g
Segments(n, g) ==
    {{g.start + r * g.step : r \in R} : R \in (SUBSET (0..(n-1))) \ {{}}}

\* group: None
NoGroup == 0

\* A shape that was in the store before the run; points stands for its
\* geometry, which tells the shapes apart
ManualShape(id, type, frame, label, group, attributes) ==
    [id |-> id, type |-> type, frame |-> frame, label_id |-> label,
     group |-> group, source |-> "manual", attributes |-> attributes,
     points |-> id]

\* What the detector's j-th annotation of a frame becomes (a tag or a shape;
\* SpecInvoke holds the conversion)
AutoShape(frame, j) ==
    [id |-> 0, type |-> "rectangle", frame |-> frame, label_id |-> j,
     group |-> NoGroup, source |-> "auto", attributes |-> <<>>, points |-> j]

DetStores ==
    {EmptyData,
     [EmptyData EXCEPT !.shapes = <<ManualShape(1, "polygon", 0, 1, NoGroup, <<>>)>>]}

LargeSizes ==
    {BatchSize, BatchSize + 1, 2 * BatchSize, 2 * BatchSize + 1,
     TestFrames - 1, TestFrames}

TaskScopes ==
    {[has_job |-> FALSE, start_frame |-> 0, step |-> 1, segment |-> {}]}

JobScopes(n) ==
    UNION { { [has_job |-> TRUE, start_frame |-> g.start, step |-> g.step,
               segment |-> seg] : seg \in Segments(n, g) }
            : g \in Geometries }

\* The runs of a detector: the task, the scope, the arguments, the store
DetectorRuns ==
    UNION {
      { [kind |-> "detector", size |-> n, scope |-> sc, deleted |-> d,
         cleanup |-> c, store |-> st]
        : sc \in TaskScopes \cup JobScopes(n),
          d \in SUBSET (0..(n-1)), c \in BOOLEAN, st \in DetStores }
      : n \in 1..SmallSize }
    \cup
    UNION {
      { [kind |-> "detector", size |-> n, scope |-> sc, deleted |-> d,
         cleanup |-> FALSE, store |-> EmptyData]
        : sc \in TaskScopes,
          d \in {{}} \cup {{k} : k \in {BatchSize, 2 * BatchSize} \cap (0..(n-1))} }
      : n \in LargeSizes }

\* The runs of a function that is neither a detector nor a matcher
OtherRuns ==
    { [kind |-> k, size |-> 1, scope |-> sc, deleted |-> {},
       cleanup |-> c, store |-> st]
      : k \in Kinds \ {"detector", "reid"}, sc \in TaskScopes,
        c \in BOOLEAN, st \in DetStores }

\* The frames of a scope, relative to the task
RelativeFrames(n, sc) ==
    IF sc.has_job
    THEN {(abs_id - sc.start_frame) \div sc.step : abs_id \in sc.segment}
    ELSE 0..(n-1)

\* Where the rectangles of a scope lie: the frame of each, in store order
BoxFrames(frames) ==
    {q \in BoundedSeq(frames, MaxBoxes) :
        \A i \in 1..Len(q) : \A j \in 1..Len(q) : i < j => q[i] <= q[j]}

\* The rectangles, plain (one label, no group, no attribute) or rich
Box(k, frame, rich) ==
    IF rich
    THEN ManualShape(k, "rectangle", frame, 1 + (k % 2), 5,
                     <<[spec_id |-> 1, value |-> "x"]>>)
    ELSE ManualShape(k, "rectangle", frame, 1, NoGroup, <<>>)

OldTrack ==
    [label_id |-> 1, group |-> NoGroup, attributes |-> <<>>, frame |-> 0,
     shapes |-> <<[type |-> "rectangle", frame |-> 0, points |-> 99,
                   outside |-> FALSE, attributes |-> <<>>]>>,
     source |-> "manual"]

\* The store a Re-ID run finds: the rectangles and, with extras, a polygon
\* before them, a tag and a track
ReidStore(q, frames, rich, extras) ==
    LET first == IF extras THEN 1 ELSE 0
        \* the id (and the points) of a rectangle is its place in the store
        boxes == [k \in 1..Len(q) |-> Box(first + k, q[k], rich)]
        f0 == CHOOSE f \in frames : \A g \in frames : f <= g
    IN IF extras
       THEN [shapes |-> <<ManualShape(90, "polygon", f0, 1, NoGroup, <<>>)>> \o boxes,
             tags |-> <<[frame |-> f0, label_id |-> 1, source |-> "manual"]>>,
             tracks |-> <<OldTrack>>]
       ELSE [shapes |-> boxes, tags |-> <<>>, tracks |-> <<>>]

\* The runs of a matcher (_call_reid does not read deleted_frames)
ReidRuns ==
    UNION { UNION {
      { [kind |-> "reid", size |-> n, scope |-> sc, deleted |-> {},
         cleanup |-> c, store |-> ReidStore(q, RelativeFrames(n, sc), rich, extras)]
        : q \in BoxFrames(RelativeFrames(n, sc)), rich \in BOOLEAN,
          extras \in BOOLEAN, c \in BOOLEAN }
      : sc \in TaskScopes \cup JobScopes(n) }
      : n \in 1..SmallSize }

Runs == DetectorRuns \cup ReidRuns \cup OtherRuns

\* The items a detector call yields
Yields == IF size <= SmallSize THEN 0..MaxYield ELSE {1}

Init ==
    /\ AttrIdle
    /\ InvokeIdle
    /\ CallIdle
    /\ LoadIdle
    /\ QueueIdle
    /\ \E run \in Runs :
        /\ kind = run.kind
        /\ cleanup = run.cleanup
        /\ has_job = run.scope.has_job
        /\ size = run.size
        /\ start_frame = run.scope.start_frame
        /\ step = run.scope.step
        /\ segment = run.scope.segment
        /\ deleted_frames = run.deleted
        /\ store = run.store
    /\ job_exists = TRUE
    /\ progress = 0
    /\ pc = "queued"
    /\ frame_set = <<>>
    /\ idx = 0
    /\ results = <<>>
    /\ annotations = <<>>
    /\ data = EmptyData
    /\ boxes_by_frame = EmptyDict
    /\ path_id = <<>>
    /\ paths = <<>>
    /\ matchings = <<>>
    /\ data_read = EmptyData
    /\ progress_log = <<>>
    /\ commits = <<>>
    /\ invocations = <<>>
    /\ after_delete = 0
    /\ seen_deleted = NotSeen
    /\ gateway_log = <<>>

\* boxes_by_frame[frame] (lines 698-704): the rectangles of the frame, as
\* indices into data["shapes"], in store order
boxes_of_frame(shapes, frame) ==
    SelectSeq([k \in 1..Len(shapes) |-> k],
              LAMBDA k : shapes[k].type = "rectangle" /\ shapes[k].frame = frame)

\* shapes_without_boxes
shapes_without_boxes(shapes) ==
    SelectSeq(shapes, LAMBDA shape : shape.type # "rectangle")

\* RequestViewSet.destroy -> LambdaJob.delete: the job record is removed
Cancel ==
    /\ job_exists
    /\ pc \notin {"finished", "failed"}
    /\ job_exists' = FALSE
    /\ UNCHANGED <<attrVars, invokeVars, callVars, loadVars, queueVars>>
    /\ UNCHANGED gateway_log
    /\ UNCHANGED <<taskVars, store, progress, pc, frame_set, idx, results,
                   annotations, reidVars, progress_log, commits, invocations,
                   after_delete, seen_deleted>>

\* LambdaJob.__call__: the optional cleanup, then the dispatch on the
\* function's kind (the start of _call_detector: Results(), the frame set)
Start ==
    /\ pc = "queued"
    /\ job_exists
    /\ store' = IF cleanup THEN EmptyData ELSE store
    /\ IF kind = "detector"
       THEN /\ frame_set' = get_frame_set(has_job, size, start_frame, step, segment)
            /\ idx' = 1
            /\ pc' = "det_loop"
            /\ UNCHANGED reidVars
       ELSE IF kind = "reid"
       THEN /\ frame_set' = get_frame_set(has_job, size, start_frame, step, segment)
            /\ idx' = 1
            /\ pc' = "reid_loop"
            /\ data' = store'
            /\ data_read' = store'
            /\ boxes_by_frame' =
                  [f \in {frame_set'[i] : i \in 1..Len(frame_set')} |->
                      boxes_of_frame(store'.shapes, f)]
            /\ path_id' = [k \in 1..Len(store'.shapes) |-> NoPath]
            /\ paths' = <<>>
            /\ matchings' = <<>>
       ELSE /\ pc' = "finished"
            /\ UNCHANGED <<frame_set, idx, reidVars>>
    /\ UNCHANGED <<attrVars, invokeVars, callVars, loadVars, queueVars>>
    /\ UNCHANGED gateway_log
    /\ UNCHANGED <<taskVars, job_exists, progress, results, annotations,
                   progress_log, commits, invocations, after_delete, seen_deleted>>

\* for frame in frame_set: skip a deleted frame, else call function.invoke
\* (which checks the frame against the job and then calls the gateway)
DetNextFrame ==
    /\ pc = "det_loop"
    /\ IF idx > Len(frame_set)
       THEN /\ pc' = "det_final"
            /\ UNCHANGED <<idx, invocations, after_delete>>
       ELSE IF frame_set[idx] \in deleted_frames
       THEN /\ idx' = idx + 1
            /\ UNCHANGED <<pc, invocations, after_delete>>
       ELSE IF ~frame_in_job(frame_set[idx])
       THEN /\ pc' = "failed"
            /\ UNCHANGED <<idx, invocations, after_delete>>
       ELSE /\ pc' = "det_invoke"
            /\ invocations' = Append(invocations, frame_set[idx])
            /\ after_delete' = after_delete + (IF job_exists THEN 0 ELSE 1)
            /\ UNCHANGED idx
    /\ UNCHANGED <<attrVars, invokeVars, callVars, loadVars, queueVars>>
    /\ UNCHANGED gateway_log
    /\ UNCHANGED <<taskVars, store, job_exists, progress, frame_set, results,
                   annotations, reidVars, progress_log, commits, seen_deleted>>

\* The gateway answers: the annotations of the frame
DetInvokeReturn ==
    /\ pc = "det_invoke"
    /\ \E n \in Yields :
          annotations' = [j \in 1..n |-> AutoShape(frame_set[idx], j)]
    /\ gateway_log' = gateway_log \o annotations'
    /\ pc' = "det_poll"
    /\ UNCHANGED <<attrVars, invokeVars, callVars, loadVars, queueVars>>
    /\ UNCHANGED <<taskVars, store, job_exists, progress, frame_set, idx, results,
                   reidVars, progress_log, commits, invocations, after_delete,
                   seen_deleted>>

\* The gateway call raises (connection error, timeout, non-2xx): the
\* exception leaves _call_detector
DetInvokeFail ==
    /\ pc = "det_invoke"
    /\ pc' = "failed"
    /\ UNCHANGED <<attrVars, invokeVars, callVars, loadVars, queueVars>>
    /\ UNCHANGED gateway_log
    /\ UNCHANGED <<taskVars, store, job_exists, progress, frame_set, idx, results,
                   annotations, reidVars, progress_log, commits, invocations,
                   after_delete, seen_deleted>>

\* A poll whose result is not looked at
after_poll_ignoring_status(status) == "det_process"

\* Where the sweep goes after the poll: on while the job has a status, out
\* of the loop once it has none
after_poll(status) == IF status THEN "det_process" ELSE "det_final"

\* progress = (frame + 1) / db_task.data.size
\* if not cls._update_progress(progress): break
DetUpdateProgress ==
    /\ pc = "det_poll"
    /\ progress' \in detector_progress(frame_set[idx])
    /\ progress_log' = logged(progress_log, progress')
    /\ pc' = after_poll(get_status)
    /\ seen_deleted' = IF get_status THEN seen_deleted ELSE <<Len(commits)>>
    /\ UNCHANGED <<attrVars, invokeVars, callVars, loadVars, queueVars>>
    /\ UNCHANGED gateway_log
    /\ UNCHANGED <<taskVars, store, job_exists, frame_set, idx, results,
                   annotations, reidVars, commits, invocations, after_delete>>

\* A submit counted by processed frames instead of by the frame's number
submit_due_by_count(frame) == idx % BatchSize = 0

\* Whether the accumulator is submitted after this frame
submit_due(frame) == frame # 0 /\ frame % BatchSize = 0

\* A rejection that takes the earlier commits of the run back
rejected_rolled_back(st) == EmptyData

\* serializer.is_valid(raise_exception=True) raises before patch_job_data /
\* patch_task_data is called: the store is as it was
rejected(st) == st

\* The annotations are appended to results; after a frame whose number is a
\* positive multiple of 100 results.submit() commits them, unless it is empty
\* (or the store rejects the batch, which raises)
DetProcess ==
    /\ pc = "det_process"
    /\ LET frame == frame_set[idx]
           acc == results \o annotations
       IN IF submit_due(frame) /\ acc # <<>>
          THEN \/ /\ store' = [store EXCEPT !.shapes = @ \o acc]
                  /\ commits' = Append(commits,
                        [final |-> FALSE, frame |-> frame, n |-> Len(acc)])
                  /\ results' = <<>>
                  /\ idx' = idx + 1
                  /\ pc' = "det_loop"
               \/ /\ results' = acc
                  /\ pc' = "failed"
                  /\ store' = rejected(store)
                  /\ UNCHANGED <<commits, idx>>
          ELSE /\ results' = acc
               /\ idx' = idx + 1
               /\ pc' = "det_loop"
               /\ UNCHANGED <<store, commits>>
    /\ annotations' = <<>>
    /\ UNCHANGED <<attrVars, invokeVars, callVars, loadVars, queueVars>>
    /\ UNCHANGED gateway_log
    /\ UNCHANGED <<taskVars, job_exists, progress, frame_set, reidVars,
                   progress_log, invocations, after_delete, seen_deleted>>

\* A run that ends without committing what is left in the accumulator
final_batch_dropped == <<>>

\* The accumulator that the submit after the loop commits
final_batch == results

\* results.submit() after the loop
DetFinalSubmit ==
    /\ pc = "det_final"
    /\ IF final_batch # <<>>
       THEN \/ /\ store' = [store EXCEPT !.shapes = @ \o final_batch]
               /\ commits' = Append(commits,
                     [final |-> TRUE, frame |-> frame_set[Len(frame_set)],
                      n |-> Len(final_batch)])
               /\ results' = <<>>
               /\ pc' = "finished"
            \/ /\ pc' = "failed"
               /\ store' = rejected(store)
               /\ UNCHANGED <<commits, results>>
       ELSE /\ pc' = "finished"
            /\ UNCHANGED <<store, commits, results>>
    /\ UNCHANGED <<attrVars, invokeVars, callVars, loadVars, queueVars>>
    /\ UNCHANGED gateway_log
    /\ UNCHANGED <<taskVars, job_exists, progress, frame_set, idx, annotations,
                   reidVars, progress_log, invocations, after_delete, seen_deleted>>

(***************************************************************************)
(* LambdaJob._call_reid.  A box is the index of its shape in               *)
(* data["shapes"]; path_id and paths hold what the code writes into the    *)
(* box dictionaries and the paths dictionary.                              *)
(***************************************************************************)
\* "for box in boxes: if 'path_id' not in box: ..." (lines 709-713, 732-736):
\* each box of the list without a path starts a new one.  Returns the new
\* <<path_id, paths>>.
RECURSIVE start_paths(_, _, _)
start_paths(boxes, pid, ps) ==
    IF boxes = <<>> THEN <<pid, ps>>
    ELSE LET box == Head(boxes)
         IN IF pid[box] = NoPath
            THEN start_paths(Tail(boxes), [pid EXCEPT ![box] = Len(ps)],
                             Append(ps, <<box>>))
            ELSE start_paths(Tail(boxes), pid, ps)

\* A matching that is not applied
apply_matching_unlinked(matching, idx0, boxes0, boxes1, pid, ps) == <<pid, ps>>

\* "for idx0, idx1 in enumerate(matching)" (lines 722-726), from idx0 on.
\* Returns the new <<path_id, paths>>.
RECURSIVE apply_matching(_, _, _, _, _, _)
apply_matching(matching, idx0, boxes0, boxes1, pid, ps) ==
    IF idx0 > Len(matching) THEN <<pid, ps>>
    ELSE LET idx1 == matching[idx0]
         IN IF idx1 >= 0
            THEN LET p == pid[boxes0[idx0]]
                     box1 == boxes1[idx1 + 1]
                 IN apply_matching(matching, idx0 + 1, boxes0, boxes1,
                                   [pid EXCEPT ![box1] = p],
                                   [ps EXCEPT ![p + 1] = Append(@, box1)])
            ELSE apply_matching(matching, idx0 + 1, boxes0, boxes1, pid, ps)

\* (i + 1) / len(frame_set) for the pair at position idx = i + 1
reid_progress == meta_progress(idx, Len(frame_set))

\* The outputs of the matcher for the pair: for each box of boxes0 the index
\* of a box of boxes1, or -1; taken as returned
Matchings(boxes0, boxes1) == [1..Len(boxes0) -> (-1)..(Len(boxes1) - 1)]

\* for i, (frame0, frame1) in enumerate(zip(frame_set[:-1], frame_set[1:])):
\* the boxes of frame0 without a path start one; with boxes in both frames
\* function.invoke is called
ReidPair ==
    /\ pc = "reid_loop"
    /\ IF idx > Len(frame_set) - 1
       THEN /\ pc' = "reid_finish"
            /\ UNCHANGED <<path_id, paths, invocations, after_delete>>
       ELSE LET frame0 == frame_set[idx]
                frame1 == frame_set[idx + 1]
                started == start_paths(boxes_by_frame[frame0], path_id, paths)
            IN /\ path_id' = started[1]
               /\ paths' = started[2]
               /\ IF boxes_by_frame[frame0] # <<>> /\ boxes_by_frame[frame1] # <<>>
                  THEN IF frame_in_job(frame0) /\ frame_in_job(frame1)
                       THEN /\ pc' = "reid_invoke"
                            /\ invocations' = Append(invocations, frame0)
                            /\ after_delete' =
                                  after_delete + (IF job_exists THEN 0 ELSE 1)
                       ELSE /\ pc' = "failed"
                            /\ UNCHANGED <<invocations, after_delete>>
                  ELSE /\ pc' = "reid_poll"
                       /\ UNCHANGED <<invocations, after_delete>>
    /\ UNCHANGED <<attrVars, invokeVars, callVars, loadVars, queueVars>>
    /\ UNCHANGED gateway_log
    /\ UNCHANGED <<taskVars, store, job_exists, progress, frame_set, idx, results,
                   annotations, data, boxes_by_frame, matchings, data_read,
                   progress_log, commits, seen_deleted>>

\* The matcher answers: each match carries the path of the box of frame0 to
\* the matched box of frame1
ReidInvokeReturn ==
    /\ pc = "reid_invoke"
    /\ LET boxes0 == boxes_by_frame[frame_set[idx]]
           boxes1 == boxes_by_frame[frame_set[idx + 1]]
       IN \E matching \in Matchings(boxes0, boxes1) :
             LET matched == apply_matching(matching, 1, boxes0, boxes1,
                                           path_id, paths)
             IN /\ path_id' = matched[1]
                /\ paths' = matched[2]
                /\ matchings' = Append(matchings, matching)
    /\ pc' = "reid_poll"
    /\ UNCHANGED <<attrVars, invokeVars, callVars, loadVars, queueVars>>
    /\ UNCHANGED gateway_log
    /\ UNCHANGED <<taskVars, store, job_exists, progress, frame_set, idx, results,
                   annotations, data, boxes_by_frame, data_read, progress_log,
                   commits, invocations, after_delete, seen_deleted>>

\* The gateway call raises: the exception leaves _call_reid
ReidInvokeFail ==
    /\ pc = "reid_invoke"
    /\ pc' = "failed"
    /\ UNCHANGED <<attrVars, invokeVars, callVars, loadVars, queueVars>>
    /\ UNCHANGED gateway_log
    /\ UNCHANGED <<taskVars, store, job_exists, progress, frame_set, idx, results,
                   annotations, reidVars, progress_log, commits, invocations,
                   after_delete, seen_deleted>>

\* if not LambdaJob._update_progress((i + 1) / len(frame_set)): break
ReidUpdateProgress ==
    /\ pc = "reid_poll"
    /\ progress' \in reid_progress
    /\ progress_log' = logged(progress_log, progress')
    /\ IF get_status
       THEN /\ idx' = idx + 1
            /\ pc' = "reid_loop"
            /\ UNCHANGED seen_deleted
       ELSE /\ pc' = "reid_finish"
            /\ seen_deleted' = <<Len(commits)>>
            /\ UNCHANGED idx
    /\ UNCHANGED <<attrVars, invokeVars, callVars, loadVars, queueVars>>
    /\ UNCHANGED gateway_log
    /\ UNCHANGED <<taskVars, store, job_exists, frame_set, results, annotations,
                   reidVars, commits, invocations, after_delete>>

\* A shape of a track: the box without id, path_id, group, label_id and
\* source, with outside and attributes set (lines 750-757)
track_shape(box, outside) ==
    [type |-> box.type, frame |-> box.frame, points |-> box.points,
     outside |-> outside, attributes |-> <<>>]

\* A track that is closed wherever it ends
track_of_always_closed(path, shapes, last_frame) ==
    LET box0 == shapes[path[1]]
        real == [i \in 1..Len(path) |-> track_shape(shapes[path[i]], FALSE)]
        last == real[Len(real)]
    IN [label_id |-> box0.label_id,
        group |-> NoGroup,
        attributes |-> <<>>,
        frame |-> box0.frame,
        shapes |-> Append(real, [last EXCEPT !.outside = TRUE, !.frame = @ + 1]),
        source |-> "auto"]

\* A track that keeps the group and the attributes of its first box
track_of_head_from_box(path, shapes, last_frame) ==
    LET box0 == shapes[path[1]]
        real == [i \in 1..Len(path) |-> track_shape(shapes[path[i]], FALSE)]
        last == real[Len(real)]
    IN [label_id |-> box0.label_id,
        group |-> box0.group,
        attributes |-> box0.attributes,
        frame |-> box0.frame,
        shapes |-> IF last.frame # last_frame
                   THEN Append(real, [last EXCEPT !.outside = TRUE,
                                                  !.frame = @ + 1])
                   ELSE real,
        source |-> "auto"]

\* The track of a path (lines 739-764): label and frame from the first box,
\* group None and attributes [], its
\* shapes from the boxes, and a closing copy of the last shape, outside and
\* one frame on, unless the path ends on the last frame of the scope
track_of(path, shapes, last_frame) ==
    LET box0 == shapes[path[1]]
        real == [i \in 1..Len(path) |-> track_shape(shapes[path[i]], FALSE)]
        last == real[Len(real)]
    IN [label_id |-> box0.label_id,
        group |-> NoGroup,
        attributes |-> <<>>,
        frame |-> box0.frame,
        shapes |-> IF last.frame # last_frame
                   THEN Append(real, [last EXCEPT !.outside = TRUE,
                                                  !.frame = @ + 1])
                   ELSE real,
        source |-> "auto"]

\* A box lies in the paths more than once: the second box.pop("path_id")
\* raises KeyError
popped_twice(ps) ==
    \E p1 \in 1..Len(ps) : \E i1 \in 1..Len(ps[p1]) :
        \E p2 \in 1..Len(ps) : \E i2 \in 1..Len(ps[p2]) :
            <<p1, i1>> # <<p2, i2>> /\ ps[p1][i1] = ps[p2][i2]

\* A merge that puts the produced tracks in place of the tracks read
merged_replacing_tracks(d, tracks) ==
    [d EXCEPT !.shapes = shapes_without_boxes(d.shapes),
              !.tracks = tracks]

\* The data the run writes (lines 766-768)
merged(d, tracks) ==
    [d EXCEPT !.shapes = shapes_without_boxes(d.shapes),
              !.tracks = @ \o tracks]

\* A put that is made whether or not there is a track
put_due_always(tracks) == TRUE

\* "if tracks:" (line 766): the data is written only when a track was made
put_due(tracks) == tracks # <<>>

\* After the loop (lines 732-775): the boxes of the last frame without a
\* path start one, every path becomes a track, and if there is a track the
\* data is written back in one put (which the store may reject)
ReidFinish ==
    /\ pc = "reid_finish"
    /\ LET last_frame == frame_set[Len(frame_set)]
           started == start_paths(boxes_by_frame[last_frame], path_id, paths)
           ps == started[2]
           tracks == [p \in 1..Len(ps) |-> track_of(ps[p], data.shapes, last_frame)]
       IN /\ paths' = ps
          /\ IF popped_twice(ps)
             THEN /\ pc' = "failed"
                  /\ path_id' = started[1]
                  /\ UNCHANGED <<store, data, commits>>
             ELSE /\ path_id' = [k \in DOMAIN path_id |-> NoPath]
                  /\ IF put_due(tracks)
                     THEN /\ data' = merged(data, tracks)
                          /\ \/ /\ store' = data'
                                /\ commits' = Append(commits,
                                      [final |-> TRUE, frame |-> last_frame,
                                       n |-> Len(tracks)])
                                /\ pc' = "finished"
                             \/ /\ pc' = "failed"
                                /\ UNCHANGED <<store, commits>>
                     ELSE /\ pc' = "finished"
                          /\ UNCHANGED <<store, data, commits>>
    /\ UNCHANGED <<attrVars, invokeVars, callVars, loadVars, queueVars>>
    /\ UNCHANGED gateway_log
    /\ UNCHANGED <<taskVars, job_exists, progress, frame_set, idx, results,
                   annotations, boxes_by_frame, matchings, data_read,
                   progress_log, invocations, after_delete, seen_deleted>>

Next ==
    \/ Cancel
    \/ Start
    \/ DetNextFrame
    \/ DetInvokeReturn
    \/ DetInvokeFail
    \/ DetUpdateProgress
    \/ DetProcess
    \/ DetFinalSubmit
    \/ ReidPair
    \/ ReidInvokeReturn
    \/ ReidInvokeFail
    \/ ReidUpdateProgress
    \/ ReidFinish

Spec == Init /\ [][Next]_vars

(***************************************************************************)
(* Claims about one job run (Spec)                                         *)
(***************************************************************************)
\* A poll of this run found the job record deleted
CancelObserved == seen_deleted # NotSeen

RunEnded == pc \in {"finished", "failed"}

\* C1: in a detection run, once the per-frame poll has found the job record
\* deleted no further commit is made: the commits of the run are those made
\* before that poll, and the partial batch is never committed.
C1_NoCommitAfterCancelObserved ==
    (kind = "detector" /\ CancelObserved) => Len(commits) = seen_deleted[1]

\* C2: in a Re-ID run, once the per-pair poll has found the job record
\* deleted the annotation store is not written any more.
C2_NoPutAfterCancelObserved ==
    [][(kind = "reid" /\ CancelObserved) => store' = store]_vars

\* C3: in both pipelines, at most one gateway invocation is started after
\* the job record was deleted.
C3_AtMostOneInvocationAfterDelete == after_delete <= 1

C3_Witness == CancelObserved /\ after_delete = 1 /\ RunEnded

\* C4: in a run of either pipeline, in either scope, with any deleted
\* frames, every progress value written lies in 0..100 and no value written
\* is smaller than the one written before it.
C4_ProgressMonotoneInRange ==
    /\ \A i \in 1..Len(progress_log) : progress_log[i] \in 0..100
    /\ progress \in 0..100
    /\ Len(progress_log) = 2 => progress_log[1] <= progress_log[2]

C4_Witness ==
    /\ has_job
    /\ deleted_frames # {}
    /\ Len(progress_log) = 2
    /\ progress_log[1] < progress_log[2]

\* The run C5 is about: a whole-task detection run without deleted frames
\* whose detector returns one shape per frame, ended without cancellation
\* or failure
C5_Case ==
    /\ kind = "detector"
    /\ ~has_job
    /\ deleted_frames = {}
    /\ Yields = {1}
    /\ job_exists
    /\ pc = "finished"

\* The frames after which the periodic submit falls
SubmitFrames == {m \in 1..(size - 1) : m % BatchSize = 0}

ReidCompleted == kind = "reid" /\ pc = "finished" /\ job_exists

\* The tracks the run made
AutoTracks == SelectSeq(store.tracks, LAMBDA t : t.source = "auto")

\* The shapes of a track that come from boxes
RealShapes(t) == SelectSeq(t.shapes, LAMBDA sh : ~sh.outside)

LastFrame == frame_set[Len(frame_set)]

\* Three frames, swept whole, with one rectangle each
OneBoxOnEachOfThreeFrames ==
    /\ kind = "reid"
    /\ ~has_job
    /\ size = 3
    /\ \A f \in 0..2 : Len(boxes_by_frame[f]) = 1

\* C17: in the tracks of an uncancelled Re-ID run, a track whose last real
\* box is not on the last frame of the scope ends with one more shape, the
\* copy of that box with outside = true and frame + 1, and any other track
\* has no such shape; with three frames of one box each and a matcher that
\* always matches, the result is one track of 3 real shapes and nothing
\* more.
C17_SyntheticTerminalBox ==
    ReidCompleted =>
        /\ \A i \in 1..Len(AutoTracks) :
              LET t == AutoTracks[i]
                  real == RealShapes(t)
                  last == real[Len(real)]
              IN /\ real # <<>>
                 /\ IF last.frame # LastFrame
                    THEN t.shapes = Append(real, [last EXCEPT !.outside = TRUE,
                                                               !.frame = @ + 1])
                    ELSE t.shapes = real
        /\ (OneBoxOnEachOfThreeFrames /\ matchings = << <<0>>, <<0>> >>) =>
              /\ Len(AutoTracks) = 1
              /\ Len(AutoTracks[1].shapes) = 3
              /\ RealShapes(AutoTracks[1]) = AutoTracks[1].shapes

C17_Witness ==
    /\ ReidCompleted
    /\ OneBoxOnEachOfThreeFrames
    /\ matchings = << <<0>>, <<0>> >>
    /\ Len(AutoTracks) = 1

\* No answer of the matcher gave one box of the later frame to two boxes
Injective ==
    \A j \in 1..Len(matchings) :
        \A a \in DOMAIN matchings[j] : \A b \in DOMAIN matchings[j] :
            (a # b /\ matchings[j][a] >= 0) => matchings[j][a] # matchings[j][b]

\* The rectangles of the scope (a rectangle is known by its points)
Boxes ==
    UNION {{boxes_by_frame[f][i] : i \in 1..Len(boxes_by_frame[f])}
           : f \in DOMAIN boxes_by_frame}

\* The frame after f in the frame set
FrameAfter(f) ==
    frame_set[1 + CHOOSE i \in 1..Len(frame_set) : frame_set[i] = f]

\* The matches: <<a, b>> where the matcher gave box b of the later frame to
\* box a of the earlier one
Links ==
    UNION {{<<boxes_by_frame[invocations[j]][i0],
              boxes_by_frame[FrameAfter(invocations[j])][matchings[j][i0] + 1]>>
            : i0 \in {i \in DOMAIN matchings[j] : matchings[j][i] >= 0}}
           : j \in 1..Len(matchings)}

\* The box at the head of the chain of matches that leads to b
RECURSIVE Root(_)
Root(b) ==
    IF \E a \in Boxes : <<a, b>> \in Links
    THEN Root(CHOOSE a \in Boxes : <<a, b>> \in Links)
    ELSE b

TrackBoxes(t) == {RealShapes(t)[i].points : i \in 1..Len(RealShapes(t))}

\* C18: in an uncancelled Re-ID run whose matcher's answers are injective,
\* two rectangles (or one) lie in one track exactly when a chain of matches
\* links them, and a rectangle no match leads to is the first of its track;
\* with three frames of one box each, a match for the first pair and none
\* for the second, there are two tracks: boxes of frames 0 and 1 closed by
\* an outside box on frame 2, and the box of frame 2 alone.
C18_TracksFollowMatchChains ==
    (ReidCompleted /\ Injective) =>
        /\ \A a \in Boxes : \A b \in Boxes :
              (\E i \in 1..Len(AutoTracks) : {a, b} \subseteq TrackBoxes(AutoTracks[i]))
                 <=> Root(a) = Root(b)
        /\ \A b \in Boxes :
              Root(b) = b =>
                 \E i \in 1..Len(AutoTracks) : AutoTracks[i].shapes[1].points = b
        /\ (OneBoxOnEachOfThreeFrames /\ matchings = << <<0>>, <<-1>> >>) =>
              /\ Len(AutoTracks) = 2
              /\ [i \in 1..3 |-> AutoTracks[1].shapes[i].frame] = <<0, 1, 2>>
              /\ [i \in 1..3 |-> AutoTracks[1].shapes[i].outside]
                    = <<FALSE, FALSE, TRUE>>
              /\ Len(AutoTracks[1].shapes) = 3
              /\ AutoTracks[2].frame = 2
              /\ Len(AutoTracks[2].shapes) = 1
              /\ AutoTracks[2].shapes[1].frame = 2
              /\ ~AutoTracks[2].shapes[1].outside

C18_Witness ==
    /\ ReidCompleted
    /\ OneBoxOnEachOfThreeFrames
    /\ matchings = << <<0>>, <<-1>> >>
    /\ Len(AutoTracks) = 2

\* C19: when the store rejects a batch of a detection run, the run ends as
\* failed and the store keeps what the earlier commits of the run wrote;
\* after that the run invokes no function and commits nothing.
C19_StoreRejectionAborts ==
    /\ [][(kind = "detector" /\ pc \in {"det_process", "det_final"}
             /\ pc' = "failed") =>
            (store' = store /\ commits' = commits)]_vars
    /\ [][(kind = "detector" /\ pc = "failed") =>
            /\ pc' = "failed"
            /\ store' = store
            /\ commits' = commits
            /\ invocations' = invocations]_vars

\* The last batch of a run was rejected after an earlier one was committed
C19_Witness ==
    /\ kind = "detector"
    /\ pc = "failed"
    /\ idx > Len(frame_set)
    /\ results # <<>>
    /\ commits # <<>>
    /\ Len(store.shapes) = commits[1].n


(***************************************************************************)
(* Claims about the accumulator and the persisted annotations of a         *)
(* detection run, and about the write of a Re-ID run (checked under Spec)  *)
(***************************************************************************)
\* The frames whose results the accumulator holds
HeldFrames == {results[i].frame : i \in 1..Len(results)}

\* C21: in a detection run, whatever the scope and the deleted frames, the
\* accumulator never holds the results of more than 100 processed frames
\* (every one of its shapes was returned for one of at most 100 frames).
C21_AccumulatorBounded ==
    kind = "detector" => Cardinality(HeldFrames) <= BatchSize

\* How often a box was given a path identity: every assignment of
\* box["path_id"] (lines 713, 725, 736) goes with one entry of the box in
\* paths (lines 712, 726, 735)
Assignments(box) ==
    Cardinality({pi \in UNION {{<<p, i>> : i \in 1..Len(paths[p])}
                                : p \in 1..Len(paths)}
                    : paths[pi[1]][pi[2]] = box})

\* The sweep of a Re-ID run is under way (the boxes carry their path_id)
Sweeping == pc \in {"reid_loop", "reid_invoke", "reid_poll", "reid_finish"}

\* C23: in a Re-ID run no box is given a path identity more than once, the
\* paths have distinct identities (the first box of the p-th path carries
\* identity p - 1), and no shape of a written track, the closing one
\* included, has a path_id field.
C23_PathIdentityOnceAndTransient ==
    kind = "reid" =>
        /\ \A box \in DOMAIN path_id : Assignments(box) <= 1
        /\ Sweeping => \A p \in 1..Len(paths) : path_id[paths[p][1]] = p - 1
        /\ \A t \in 1..Len(AutoTracks) :
              \A i \in 1..Len(AutoTracks[t].shapes) :
                  "path_id" \notin DOMAIN AutoTracks[t].shapes[i]

\* C24: whatever the matcher returns, after a pair is matched no box of the
\* later frame lies in more than one path, and the run does not end with a
\* box in two paths (track assembly completes).
C24_BoxInAtMostOnePath ==
    /\ [][(kind = "reid" /\ pc = "reid_invoke" /\ pc' = "reid_poll") =>
            LET boxes1 == boxes_by_frame[frame_set[idx + 1]]
            IN \A i \in 1..Len(boxes1) :
                  Cardinality({p \in 1..Len(paths') :
                      \E j \in 1..Len(paths'[p]) : paths'[p][j] = boxes1[i]}) <= 1
         ]_vars
    /\ [](kind = "reid" /\ RunEnded => ~popped_twice(paths))

\* The rectangle of the scope that the first shape of a track was made from
FirstBox(t) ==
    CHOOSE shape \in ItemsOf(data_read.shapes) :
        shape.type = "rectangle" /\ shape.points = t.shapes[1].points

\* The fields line 751-755 remove from a box
Transient == {"id", "path_id", "group", "label_id", "source"}

\* What C25 needs of the shapes of a track: none has a transient field, all
\* have attributes = [], and all have outside = false but the closing copy
ShapesStripped(t) ==
    \A i \in 1..Len(t.shapes) :
        LET sh == t.shapes[i]
        IN /\ DOMAIN sh \cap Transient = {}
           /\ sh.attributes = <<>>
           /\ sh.outside =>
                 /\ i = Len(t.shapes)
                 /\ i > 1
                 /\ sh = [t.shapes[i - 1] EXCEPT !.outside = TRUE, !.frame = @ + 1]

\* A Re-ID run has written its tracks
ReidWritten == kind = "reid" /\ commits # <<>>

\* C25 as stated: each track written by Re-ID has the label, the group and
\* the attributes of the first box of its path, and its shapes are stripped.
C25_TrackHeadFromFirstBox ==
    ReidWritten =>
        \A t \in 1..Len(AutoTracks) :
            LET track == AutoTracks[t]
                box0 == FirstBox(track)
            IN /\ track.label_id = box0.label_id
               /\ track.group = box0.group
               /\ track.attributes = box0.attributes
               /\ ShapesStripped(track)

\* C25 amended: each track written by Re-ID has the label and the frame of
\* the first box of its path, no group and no attributes whatever the boxes
\* carried, and its shapes are stripped.
C25_TrackLabelFromFirstBox ==
    ReidWritten =>
        \A t \in 1..Len(AutoTracks) :
            LET track == AutoTracks[t]
                box0 == FirstBox(track)
            IN /\ track.label_id = box0.label_id
               /\ track.frame = box0.frame
               /\ track.group = NoGroup
               /\ track.attributes = <<>>
               /\ track.source = "auto"
               /\ ShapesStripped(track)

\* A written track of two boxes or more whose first box had a group and an
\* attribute, and whose boxes differ in label
C25_Witness ==
    /\ ReidWritten
    /\ \E t \in 1..Len(AutoTracks) :
          /\ FirstBox(AutoTracks[t]).group # NoGroup
          /\ FirstBox(AutoTracks[t]).attributes # <<>>
          /\ Len(RealShapes(AutoTracks[t])) >= 2
          /\ \E shape \in ItemsOf(data_read.shapes) :
                /\ shape.points = AutoTracks[t].shapes[2].points
                /\ shape.label_id # AutoTracks[t].label_id

\* The rectangles the run found in its scope
RectanglesRead ==
    SelectSeq(data_read.shapes, LAMBDA shape : shape.type = "rectangle")

\* C26: a Re-ID run (after the optional cleanup of __call__) writes to the
\* annotation store at most once, as the last step of the run, and that
\* write carries at least one produced track; with no rectangle in the scope
\* there is no track and no write.
C26_SingleWriteAtEnd ==
    /\ [](kind = "reid" => Len(commits) <= 1)
    /\ [][(kind = "reid" /\ pc # "queued"
             /\ (store' # store \/ commits' # commits)) =>
            /\ pc = "reid_finish"
            /\ pc' = "finished"
            /\ commits = <<>>
            /\ Len(commits') = 1
            /\ store' = data'
            /\ SelectSeq(store'.tracks, LAMBDA t : t.source = "auto") # <<>>
         ]_vars
    /\ []((kind = "reid" /\ RectanglesRead = <<>>) =>
            (commits = <<>> /\ paths = <<>>))

\* A run over three frames that called the matcher twice and wrote once
C26_Witness ==
    /\ ReidCompleted
    /\ Len(matchings) = 2
    /\ Len(commits) = 1
    /\ store = data

\* C27: the data a Re-ID run writes holds the non-rectangle shapes, the tags
\* and the tracks of the data it read, unchanged and in their order, and the
\* produced tracks after the tracks read.
C27_OnlyRectanglesReplaced ==
    ReidWritten =>
        LET old == Len(data_read.tracks)
        IN /\ store.shapes = SelectSeq(data_read.shapes,
                                LAMBDA shape : shape.type # "rectangle")
           /\ store.tags = data_read.tags
           /\ Len(store.tracks) > old
           /\ SubSeq(store.tracks, 1, old) = data_read.tracks
           /\ \A i \in (old + 1)..Len(store.tracks) :
                 /\ store.tracks[i].source = "auto"
                 /\ store.tracks[i] \notin ItemsOf(data_read.tracks)

\* A write over a scope that held a polygon, a tag, a track and rectangles
C27_Witness ==
    /\ ReidWritten
    /\ RectanglesRead # <<>>
    /\ Len(data_read.shapes) > Len(RectanglesRead)
    /\ data_read.tags # <<>>
    /\ data_read.tracks # <<>>
    /\ Len(store.tracks) >= 3

\* A detection run that ended without cancellation and without failure
DetectorCompleted == kind = "detector" /\ pc = "finished" /\ job_exists

\* The shapes in the store that a detection run put there
AutoShapes == SelectSeq(store.shapes, LAMBDA shape : shape.source = "auto")

\* C28: when a detection run ends uncancelled and unfailed, the gateway was
\* invoked once for each non-deleted frame of the scope, in ascending order,
\* and for no deleted frame; the shapes the run put in the store are exactly
\* the annotations the gateway returned, each one once, in the order
\* returned, over all the commits of the run; none is on a deleted frame.
C28_ExactlyOncePersistence ==
    DetectorCompleted =>
        /\ invocations = SelectSeq(frame_set, LAMBDA f : f \notin deleted_frames)
        /\ \A i \in 1..Len(invocations) : \A j \in 1..Len(invocations) :
              i < j => invocations[i] < invocations[j]
        /\ AutoShapes = gateway_log
        /\ \A i \in 1..Len(AutoShapes) : \A j \in 1..Len(AutoShapes) :
              i # j => AutoShapes[i] # AutoShapes[j]
        /\ \A i \in 1..Len(AutoShapes) :
              /\ AutoShapes[i].frame \notin deleted_frames
              /\ AutoShapes[i].frame \in ItemsOf(invocations)
        /\ results = <<>>

\* A completed run with a deleted frame that committed in several batches
C28_Witness ==
    /\ DetectorCompleted
    /\ deleted_frames # {}
    /\ Len(commits) >= 2
    /\ Len(gateway_log) = size - 1
    /\ Len(AutoShapes) = size - 1

\* The places <<track, shape>> of the written tracks where a rectangle of
\* the scope appears as a real shape
PlacesOf(box) ==
    {ti \in UNION {{<<t, i>> : i \in 1..Len(AutoTracks[t].shapes)}
                   : t \in 1..Len(AutoTracks)} :
        LET sh == AutoTracks[ti[1]].shapes[ti[2]]
        IN ~sh.outside /\ sh.points = box.points /\ sh.frame = box.frame}

\* C29: whenever a Re-ID run writes, cut short by cancellation or not, every
\* rectangle that was in the scope is exactly one real shape of exactly one
\* written track.
C29_NoRectangleLost ==
    ReidWritten =>
        \A k \in 1..Len(RectanglesRead) :
            Cardinality(PlacesOf(RectanglesRead[k])) = 1

\* C30: in job scope every relative frame of the frame set, converted back
\* by invoke (start_frame + frame * step), is a frame of the job's segment,
\* the frame set has one frame for each frame of the segment, and neither
\* pipeline fails at the frame-bound validation of a frame of its frame set.
C30_JobFrameRoundTrip ==
    /\ []((has_job /\ pc # "queued") =>
            /\ \A i \in 1..Len(frame_set) :
                  (start_frame + frame_set[i] * step) \in segment
            /\ {start_frame + frame_set[i] * step : i \in 1..Len(frame_set)}
                  = segment
            /\ Len(frame_set) = Cardinality(segment))
    /\ [][(has_job /\ pc \in {"det_loop", "reid_loop"}) => pc' # "failed"]_vars

\* A detection run over the job whose segment is frames 1 and 5 of a task
\* that starts at frame 1 with step 2 (relative frames 0 and 2), completed
C30_Witness ==
    /\ DetectorCompleted
    /\ has_job
    /\ start_frame = 1
    /\ step = 2
    /\ segment = {1, 5}
    /\ frame_set = <<0, 2>>
    /\ invocations = <<0, 2>>

(***************************************************************************)
(* Claims about the cleanup of a run and the frames of the produced        *)
(* tracks (checked under Spec)                                             *)
(***************************************************************************)
\* The first step of a run: LambdaJob.__call__ is entered
Starting == pc = "queued" /\ pc' # "queued"

\* The parts of C31 about the cleanup: the first step of the run empties
\* the scope's data when cleanup was requested and leaves it alone
\* otherwise, before any invocation and any commit; no later step of a
\* detection run removes a shape, and no later step of any run empties a
\* store that held something.
CleanupFirstAndOnce ==
    /\ [][Starting => /\ store' = (IF cleanup THEN EmptyData ELSE store)
                      /\ invocations = <<>>
                      /\ commits = <<>>]_vars
    /\ [](pc = "queued" => (invocations = <<>> /\ commits = <<>>))
    /\ [][(pc # "queued" /\ kind = "detector") =>
            /\ Len(store'.shapes) >= Len(store.shapes)
            /\ SubSeq(store'.shapes, 1, Len(store.shapes)) = store.shapes]_vars
    /\ [][(pc # "queued" /\ store # EmptyData) => store' # EmptyData]_vars

\* C31: a run deletes the scope's annotations only when cleanup was
\* requested, once, before its first invocation and its first commit; and
\* a run of a function that is neither a detector nor a matcher invokes
\* nothing and leaves the annotation store as it was.
C31_CleanupOrdering ==
    /\ CleanupFirstAndOnce
    /\ [][(kind \notin {"detector", "reid"}) =>
            (store' = store /\ invocations' = invocations)]_vars

\* The place of a frame in the frame set (0 when it is not in it)
PlaceOf(f) ==
    IF \E i \in 1..Len(frame_set) : frame_set[i] = f
    THEN CHOOSE i \in 1..Len(frame_set) : frame_set[i] = f
    ELSE 0

\* The parts of C32 about the order: the frames of a track's shapes
\* increase strictly, only the last shape may be outside, and the real
\* shapes lie on consecutive frames of the frame set.
OrderedWithoutGap(t) ==
    /\ \A i \in 1..(Len(t.shapes) - 1) :
          /\ t.shapes[i].frame < t.shapes[i + 1].frame
          /\ ~t.shapes[i].outside
    /\ \A i \in 1..Len(RealShapes(t)) : PlaceOf(RealShapes(t)[i].frame) > 0
    /\ \A i \in 1..(Len(RealShapes(t)) - 1) :
          PlaceOf(RealShapes(t)[i + 1].frame) = PlaceOf(RealShapes(t)[i].frame) + 1

TracksOrderedWithoutGap ==
    ReidWritten => \A t \in 1..Len(AutoTracks) : OrderedWithoutGap(AutoTracks[t])

\* C32: in every track a Re-ID run writes, whatever the frame set of the
\* scope, the shapes are in strictly increasing frame order, the real
\* shapes lie on consecutive frames of the frame set, only the last shape
\* may be outside, and the frame of every shape, the closing one included,
\* is a frame of the frame set.
C32_TrackShapesInFrameSet ==
    ReidWritten =>
        \A t \in 1..Len(AutoTracks) :
            /\ OrderedWithoutGap(AutoTracks[t])
            /\ \A i \in 1..Len(AutoTracks[t].shapes) :
                  PlaceOf(AutoTracks[t].shapes[i].frame) > 0

(***************************************************************************)
(* SpecCall: one synchronous call, FunctionViewSet.call followed by the    *)
(* part of LambdaFunction.invoke that precedes the gateway (lines          *)
(* 212-340).  A result is how the call ended and the field the error       *)
(* names.                                                                  *)
(***************************************************************************)
ToGateway == [outcome |-> "gateway", field |-> ""]
ValidationError(field) == [outcome |-> "ValidationError", field |-> field]
KeyError(field) == [outcome |-> "KeyError", field |-> field]

\* The first result of the sequence that is an error: Python evaluates the
\* entries of the payload in order and the first exception leaves invoke
RECURSIVE first_error(_)
first_error(steps) ==
    IF steps = <<>> THEN ToGateway
    ELSE IF Head(steps) # ToGateway THEN Head(steps)
    ELSE first_error(Tail(steps))

\* data = {k: v for k, v in data.items() if v is not None}
not_none(request_data) ==
    [k \in {key \in DOMAIN request_data : request_data[key] # None} |->
        request_data[k][1]]

\* mandatory_arg(name)
mandatory_arg(args, name) ==
    IF name \in DOMAIN args THEN ToGateway ELSE ValidationError(name)

\* data[name]
subscript(args, name) ==
    IF name \in DOMAIN args THEN ToGateway ELSE KeyError(name)

\* _get_image: the quality is None, "original" or "compressed"
get_image(quality) ==
    IF quality \in {None, <<"original">>, <<"compressed">>}
    THEN ToGateway ELSE ValidationError("quality")

\* The job frame check that looks at the frame argument only
job_frame_error_frame_only(args, job) ==
    IF "frame" \in DOMAIN args
       /\ (job.start + args["frame"] * job.step) \notin job.segment
    THEN "frame" ELSE ""

\* "Check job frame boundaries": the description of the first of frame,
\* frame0, frame1 that is given and lies outside the segment, "" if none
job_frame_error(args, job) ==
    LET outside(key) ==
            /\ key \in DOMAIN args
            /\ (job.start + args[key] * job.step) \notin job.segment
    IN IF outside("frame") THEN "frame"
       ELSE IF outside("frame0") THEN "start frame"
       ELSE IF outside("frame1") THEN "end frame"
       ELSE ""

\* The payload of each kind (lines 295-335)
payload(fkind, args, quality) ==
    IF fkind = "detector"
    THEN first_error(<<subscript(args, "frame"), get_image(quality)>>)
    ELSE IF fkind = "interactor"
    THEN first_error(<<mandatory_arg(args, "frame"), get_image(quality),
                       mandatory_arg(args, "pos_points"),
                       mandatory_arg(args, "neg_points")>>)
    ELSE IF fkind = "reid"
    THEN first_error(<<mandatory_arg(args, "frame0"), get_image(quality),
                       mandatory_arg(args, "frame1"), get_image(quality),
                       mandatory_arg(args, "boxes0"),
                       mandatory_arg(args, "boxes1")>>)
    ELSE IF fkind = "tracker"
    THEN first_error(<<mandatory_arg(args, "frame"), get_image(quality)>>)
    ELSE ValidationError("type")

\* LambdaFunction.invoke up to the gateway call, for the task db_task and
\* the job db_job (None or <<job>>)
invoke_call(fkind, db_task, db_job, request_data, quality) ==
    IF db_job # None /\ db_job[1].task # db_task
    THEN ValidationError("job task id")
    ELSE LET args == not_none(request_data)
             outside == IF db_job # None
                        THEN job_frame_error(args, db_job[1]) ELSE ""
         IN IF outside # "" THEN ValidationError(outside)
            ELSE payload(fkind, args, quality)

\* The tasks that exist
TaskIds == {1, 2}

\* FunctionViewSet.call: the task is the task of the job if a job is given,
\* request.data['task'] otherwise; a missing job, task id or task is a
\* validation error
call(fkind, request, jobs) ==
    IF request.job # None /\ request.job[1] \notin DOMAIN jobs
    THEN ValidationError("arguments")
    ELSE IF request.job = None /\ request.task = None
    THEN ValidationError("arguments")
    ELSE LET job == IF request.job # None THEN <<jobs[request.job[1]]>> ELSE None
             task_id == IF job # None THEN job[1].task ELSE request.task[1]
         IN IF task_id \notin TaskIds THEN ValidationError("arguments")
            ELSE invoke_call(fkind, task_id, job, request.data, request.quality)

FrameKeys == {"frame", "frame0", "frame1"}

\* The other arguments that a kind reads
OtherKeys(fkind) ==
    IF fkind = "interactor" THEN {"pos_points", "neg_points"}
    ELSE IF fkind = "reid" THEN {"boxes0", "boxes1"}
    ELSE {}

\* request.data: each argument missing, null or given
CallData(fkind) ==
    UNION { [keys -> {None} \cup {<<v>> : v \in 0..(CallSize - 1)}]
            : keys \in SUBSET (FrameKeys \cup OtherKeys(fkind)) }

\* The jobs table: job 1, of task 1, with its segment
CallJobs ==
    UNION { { [j \in {1} |-> [task |-> 1, start |-> g.start, step |-> g.step,
                              segment |-> seg]]
              : seg \in Segments(CallSize, g) }
            : g \in Geometries }

InitCall ==
    /\ AttrIdle
    /\ InvokeIdle
    /\ RunIdle
    /\ LoadIdle
    /\ QueueIdle
    /\ cl_kind \in Kinds
    /\ \E job \in {None, <<1>>, <<9>>}, task \in {None, <<1>>, <<2>>, <<9>>},
          quality \in {<<"original">>, <<"best">>}, args \in CallData(cl_kind) :
          cl_request = [job |-> job, task |-> task, quality |-> quality,
                        data |-> args]
    /\ cl_db \in {jobs \in CallJobs :
                    cl_request.job # <<1>> => jobs[1].segment = {jobs[1].start}}
    /\ cl_result = [outcome |-> "pending", field |-> ""]

Call ==
    /\ cl_result.outcome = "pending"
    /\ cl_result' = call(cl_kind, cl_request, cl_db)
    /\ UNCHANGED <<cl_kind, cl_request, cl_db>>
    /\ UNCHANGED <<attrVars, invokeVars, runVars, loadVars, queueVars>>

NextCall == Call

SpecCall == InitCall /\ [][NextCall]_vars

(***************************************************************************)
(* Claims about the synchronous call (checked under SpecCall)              *)
(***************************************************************************)
CallDone == cl_result.outcome \notin {"idle", "pending"}

\* The call is made for the job of the jobs table
JobScope == cl_request.job = <<1>>

\* The call is made for an existing task, without a job
TaskScope == cl_request.job = None /\ cl_request.task \in {<<1>>, <<2>>}

\* The argument is in the request and not null
Given(name) ==
    name \in DOMAIN cl_request.data /\ cl_request.data[name] # None

\* The frame arguments that are given and, made absolute, lie outside the
\* segment of the job
OutsideJob ==
    {key \in FrameKeys :
        /\ Given(key)
        /\ (cl_db[1].start + cl_request.data[key][1] * cl_db[1].step)
              \notin cl_db[1].segment}

FieldOf(key) ==
    IF key = "frame" THEN "frame"
    ELSE IF key = "frame0" THEN "start frame" ELSE "end frame"

\* C11: a call in job scope with a frame, frame0 or frame1 that lies outside
\* the job's segment ends in a validation error that names such a field,
\* and the gateway is not invoked.
C11_FrameOutsideJobRejected ==
    (CallDone /\ JobScope /\ OutsideJob # {}) =>
        /\ cl_result.outcome = "ValidationError"
        /\ cl_result.field \in {FieldOf(key) : key \in OutsideJob}

C11_Witness ==
    /\ CallDone
    /\ JobScope
    /\ OutsideJob = {"frame1"}
    /\ cl_result = ValidationError("end frame")

\* The arguments a kind cannot do without
Mandatory(fkind) ==
    IF fkind = "detector" THEN {"frame"}
    ELSE IF fkind = "interactor" THEN {"frame", "pos_points", "neg_points"}
    ELSE IF fkind = "reid" THEN {"frame0", "frame1", "boxes0", "boxes1"}
    ELSE IF fkind = "tracker" THEN {"frame"}
    ELSE {}

Missing == {name \in Mandatory(cl_kind) : ~Given(name)}

\* C12: for every kind, a call that reaches invoke (valid scope, no frame
\* outside the job, valid quality) with a mandatory argument missing or
\* null ends in a validation error naming a missing argument, never in
\* another error, and the gateway is not invoked.
C12_MissingArgumentIsValidationError ==
    (/\ CallDone
     /\ JobScope \/ TaskScope
     /\ JobScope => OutsideJob = {}
     /\ cl_request.quality = <<"original">>
     /\ Missing # {}) =>
        /\ cl_result.outcome = "ValidationError"
        /\ cl_result.field \in Missing

\* C20: a call that names a job and a task other than the task of the job
\* is rejected with a validation error, and the gateway is not invoked.
C20_TaskMismatchRejected ==
    (/\ CallDone
     /\ JobScope
     /\ cl_request.task # None
     /\ cl_request.task[1] # cl_db[1].task) =>
        cl_result.outcome = "ValidationError"

(***************************************************************************)
(* SpecLoad: the construction of a LambdaFunction from the descriptor the  *)
(* gateway returns (lines 139-153).                                        *)
(***************************************************************************)
\* [item['name'] for item in items]
names_of(items) == [i \in 1..Len(items) |-> items[i].name]

\* len(names) == len(set(names))
unique(names) == Len(names) = Cardinality({names[i] : i \in 1..Len(names)})

\* {item['name']: item.get('attributes', []) for item in spec}: a later
\* item of the same name replaces an earlier one
func_attributes_of(spec) ==
    [name \in {spec[i].name : i \in 1..Len(spec)} |->
        LET last == CHOOSE i \in 1..Len(spec) :
                        /\ spec[i].name = name
                        /\ \A j \in 1..Len(spec) : spec[j].name = name => j <= i
        IN spec[last].attributes]

\* A construction that checks the labels only
load_labels_only(spec) ==
    IF ~unique(names_of(spec))
    THEN [result |-> "ValidationError",
          function |-> [labels |-> <<>>, func_attributes |-> EmptyDict]]
    ELSE [result |-> "loaded",
          function |-> [labels |-> names_of(spec),
                        func_attributes |-> func_attributes_of(spec)]]

\* LambdaFunction.__init__: the labels, then the attributes of each label,
\* must have distinct names
load(spec) ==
    IF ~unique(names_of(spec))
    THEN [result |-> "ValidationError",
          function |-> [labels |-> <<>>, func_attributes |-> EmptyDict]]
    ELSE LET func_attributes == func_attributes_of(spec)
         IN IF \E label \in DOMAIN func_attributes :
                  ~unique(names_of(func_attributes[label]))
            THEN [result |-> "ValidationError",
                  function |-> [labels |-> names_of(spec),
                                func_attributes |-> func_attributes]]
            ELSE [result |-> "loaded",
                  function |-> [labels |-> names_of(spec),
                                func_attributes |-> func_attributes]]

\* The descriptors: at most MaxSpec labels of at most MaxSpec attributes
SpecAttributes ==
    BoundedSeq({[name |-> a, input_type |-> "text"] : a \in AttrNames}, MaxSpec)

SpecChoices ==
    BoundedSeq({[name |-> l, attributes |-> as] :
                    l \in LabelNames, as \in SpecAttributes}, MaxSpec)

InitLoad ==
    /\ AttrIdle
    /\ InvokeIdle
    /\ RunIdle
    /\ CallIdle
    /\ QueueIdle
    /\ ld_spec \in SpecChoices
    /\ ld_result = "pending"
    /\ ld_function = [labels |-> <<>>, func_attributes |-> EmptyDict]

Load ==
    /\ ld_result = "pending"
    /\ ld_result' = load(ld_spec).result
    /\ ld_function' = load(ld_spec).function
    /\ UNCHANGED ld_spec
    /\ UNCHANGED <<attrVars, invokeVars, runVars, callVars, queueVars>>

NextLoad == Load

SpecLoad == InitLoad /\ [][NextLoad]_vars

(***************************************************************************)
(* Claims about the construction (checked under SpecLoad)                  *)
(***************************************************************************)
LoadDone == ld_result \notin {"idle", "pending"}

\* Two entries of the sequence bear the same name
SharedName(items) ==
    \E i \in 1..Len(items) : \E j \in 1..Len(items) :
        i # j /\ items[i].name = items[j].name

\* C13: the construction fails with a validation error if and only if two
\* labels of the descriptor share a name or two attributes of one label
\* share a name; a function that was constructed has pairwise distinct
\* label names and, in each label, pairwise distinct attribute names.
C13_DuplicateNamesRejected ==
    LoadDone =>
        /\ ld_result = "ValidationError" <=>
              \/ SharedName(ld_spec)
              \/ \E i \in 1..Len(ld_spec) : SharedName(ld_spec[i].attributes)
        /\ ld_result = "loaded" =>
              /\ \A i \in 1..Len(ld_function.labels) :
                    \A j \in 1..Len(ld_function.labels) :
                        i # j => ld_function.labels[i] # ld_function.labels[j]
              /\ \A label \in DOMAIN ld_function.func_attributes :
                    ~SharedName(ld_function.func_attributes[label])

C13_Witness ==
    /\ ld_result = "ValidationError"
    /\ ~SharedName(ld_spec)
    /\ \E i \in 1..Len(ld_spec) : SharedName(ld_spec[i].attributes)

(***************************************************************************)
(* SpecQueue: the request queue.  LambdaQueue.enqueue is two steps, the    *)
(* scan of the known jobs and the submission of the new job, so that the   *)
(* calls of several requests interleave; the worker starts, finishes or    *)
(* fails a job; RequestViewSet.retrieve and destroy fetch and delete one.  *)
(***************************************************************************)
Statuses == {"queued", "started", "deferred", "scheduled", "finished", "failed"}

\* A listing that takes the jobs of the failed registry too
get_jobs_with_failed(jobs) ==
    {id \in DOMAIN jobs : jobs[id].lambda}

\* LambdaQueue.get_jobs: the jobs of the queue and of the started, finished,
\* scheduled and deferred registries (not the failed ones) that bear the
\* "lambda" tag
get_jobs(jobs) ==
    {id \in DOMAIN jobs :
        /\ jobs[id].status \in {"queued", "started", "finished", "scheduled",
                                "deferred"}
        /\ jobs[id].lambda}

\* A scan that looks at the queued jobs only
conflict_queued_only(jobs, task) ==
    \E id \in get_jobs(jobs) :
        jobs[id].task = task /\ jobs[id].status = "queued"

\* A scan that also sees the calls that passed and did not submit yet
conflict_or_pending(jobs, task) ==
    \/ \E id \in get_jobs(jobs) :
          jobs[id].task = task /\ jobs[id].status # "finished"
    \/ \E c \in DOMAIN q_callers :
          q_callers[c].pc = "passed" /\ q_callers[c].task = task

\* filter(lambda job: job.get_task() == task and not job.is_finished, jobs)
conflict(jobs, task) ==
    \E id \in get_jobs(jobs) :
        jobs[id].task = task /\ jobs[id].status # "finished"

\* A fetch that does not look at the tag
fetch_job_untagged(jobs, pk) ==
    IF pk \notin DOMAIN jobs THEN None ELSE <<jobs[pk]>>

\* LambdaQueue.fetch_job: the job, or None where the code raises the
\* "not found" ValidationError
fetch_job(jobs, pk) ==
    IF pk \notin DOMAIN jobs \/ ~jobs[pk].lambda THEN None ELSE <<jobs[pk]>>

Callers == 1..MaxCallers
JobIds == 1..MaxJobs

NoResponse == [op |-> "none", pk |-> 0, outcome |-> "", status |-> ""]

\* The queue holds no job or one job left by an earlier request (or by
\* another subsystem, then without the tag), in any status
InitQueue ==
    /\ AttrIdle
    /\ InvokeIdle
    /\ RunIdle
    /\ CallIdle
    /\ LoadIdle
    /\ q_jobs \in {EmptyDict} \cup
                  { [id \in {1} |-> [task |-> t, status |-> s, lambda |-> l]]
                    : t \in TaskIds, s \in Statuses, l \in BOOLEAN }
    /\ q_next_id = 2
    /\ q_callers = [c \in Callers |-> [pc |-> "idle", task |-> 0]]
    /\ q_response = NoResponse
    /\ q_interleaved = FALSE

\* enqueue, lines 441-448: the scan; on a conflict the call ends
EnqueueScan(c, task) ==
    /\ q_callers[c].pc = "idle"
    /\ q_next_id + Cardinality({d \in Callers : q_callers[d].pc = "passed"})
          <= MaxJobs
    /\ IF conflict(q_jobs, task)
       THEN /\ q_response' = [op |-> "enqueue", pk |-> 0,
                              outcome |-> "conflict", status |-> ""]
            /\ UNCHANGED q_callers
       ELSE /\ q_callers' = [q_callers EXCEPT ![c] = [pc |-> "passed",
                                                       task |-> task]]
            /\ UNCHANGED q_response
    /\ q_interleaved' =
          (q_interleaved \/ \E d \in Callers \ {c} : q_callers[d].pc = "passed")
    /\ UNCHANGED <<q_jobs, q_next_id>>
    /\ UNCHANGED <<attrVars, invokeVars, runVars, callVars, loadVars>>

\* enqueue, lines 450-471: the job is created with the tag and enqueued
EnqueueSubmit(c) ==
    /\ q_callers[c].pc = "passed"
    /\ q_jobs' = [id \in DOMAIN q_jobs \cup {q_next_id} |->
                    IF id = q_next_id
                    THEN [task |-> q_callers[c].task, status |-> "queued",
                          lambda |-> TRUE]
                    ELSE q_jobs[id]]
    /\ q_next_id' = q_next_id + 1
    /\ q_callers' = [q_callers EXCEPT ![c] = [pc |-> "idle", task |-> 0]]
    /\ q_response' = [op |-> "enqueue", pk |-> q_next_id, outcome |-> "ok",
                      status |-> "queued"]
    /\ UNCHANGED q_interleaved
    /\ UNCHANGED <<attrVars, invokeVars, runVars, callVars, loadVars>>

\* The worker takes a queued job and calls LambdaJob.__call__
WorkerStart(id) ==
    /\ id \in DOMAIN q_jobs
    /\ q_jobs[id].status = "queued"
    /\ q_jobs' = [q_jobs EXCEPT ![id].status = "started"]
    /\ UNCHANGED <<q_next_id, q_callers, q_response, q_interleaved>>
    /\ UNCHANGED <<attrVars, invokeVars, runVars, callVars, loadVars>>

\* LambdaJob.__call__ returns, or raises
WorkerEnd(id) ==
    /\ id \in DOMAIN q_jobs
    /\ q_jobs[id].status = "started"
    /\ \E s \in {"finished", "failed"} :
          q_jobs' = [q_jobs EXCEPT ![id].status = s]
    /\ UNCHANGED <<q_next_id, q_callers, q_response, q_interleaved>>
    /\ UNCHANGED <<attrVars, invokeVars, runVars, callVars, loadVars>>

\* RequestViewSet.retrieve
Fetch(pk) ==
    /\ q_response' =
          IF fetch_job(q_jobs, pk) = None
          THEN [op |-> "fetch", pk |-> pk, outcome |-> "not found",
                status |-> ""]
          ELSE [op |-> "fetch", pk |-> pk, outcome |-> "ok",
                status |-> fetch_job(q_jobs, pk)[1].status]
    /\ UNCHANGED <<q_jobs, q_next_id, q_callers, q_interleaved>>
    /\ UNCHANGED <<attrVars, invokeVars, runVars, callVars, loadVars>>

\* RequestViewSet.destroy: fetch_job, then LambdaJob.delete
Destroy(pk) ==
    /\ IF fetch_job(q_jobs, pk) = None
       THEN /\ q_response' = [op |-> "destroy", pk |-> pk,
                              outcome |-> "not found", status |-> ""]
            /\ UNCHANGED q_jobs
       ELSE /\ q_response' = [op |-> "destroy", pk |-> pk, outcome |-> "ok",
                              status |-> ""]
            /\ q_jobs' = [id \in DOMAIN q_jobs \ {pk} |-> q_jobs[id]]
    /\ UNCHANGED <<q_next_id, q_callers, q_interleaved>>
    /\ UNCHANGED <<attrVars, invokeVars, runVars, callVars, loadVars>>

NextQueue ==
    \/ \E c \in Callers, task \in TaskIds : EnqueueScan(c, task)
    \/ \E c \in Callers : EnqueueSubmit(c)
    \/ \E id \in JobIds : WorkerStart(id)
    \/ \E id \in JobIds : WorkerEnd(id)
    \/ \E pk \in JobIds : Fetch(pk)
    \/ \E pk \in JobIds : Destroy(pk)

SpecQueue == InitQueue /\ [][NextQueue]_vars

(***************************************************************************)
(* Claims about the queue (checked under SpecQueue)                        *)
(***************************************************************************)
\* A job of this subsystem
Known(pk) == pk \in DOMAIN q_jobs /\ q_jobs[pk].lambda

\* The known jobs of the task that are in a non-terminal status
ActiveJobs(task) ==
    {id \in DOMAIN q_jobs :
        /\ q_jobs[id].lambda
        /\ q_jobs[id].task = task
        /\ q_jobs[id].status \in {"queued", "deferred", "scheduled", "started"}}

\* C14: an enqueue for a task made while a known job of the task is queued,
\* deferred, scheduled or started is rejected with a conflict and creates
\* no job; and as long as no enqueue ran between the scan and the
\* submission of another, at most one known job per task is in a
\* non-terminal status.
C14_SequentialAdmission ==
    /\ [](~q_interleaved =>
            \A task \in TaskIds : Cardinality(ActiveJobs(task)) <= 1)
    /\ [][\A c \in Callers : \A task \in TaskIds :
            (EnqueueScan(c, task) /\ ActiveJobs(task) # {}) =>
                /\ q_response'.op = "enqueue"
                /\ q_response'.outcome = "conflict"
                /\ q_jobs' = q_jobs
                /\ q_callers' = q_callers]_vars

\* Without any interleaving: a task with a finished job and with one
\* admitted after it, and an enqueue that was rejected
C14_Witness ==
    /\ ~q_interleaved
    /\ \E task \in TaskIds :
          /\ Cardinality(ActiveJobs(task)) = 1
          /\ \E id \in DOMAIN q_jobs :
                /\ q_jobs[id].lambda
                /\ q_jobs[id].task = task
                /\ q_jobs[id].status = "finished"
    /\ q_response.op = "enqueue"
    /\ q_response.outcome = "conflict"

\* C15: the scan of an enqueue looks at the job records only: a call passes
\* it exactly when no known job of the task is in a non-terminal status,
\* whatever calls have passed the scan and not yet submitted; so two calls
\* for one task can both pass and leave two non-terminal jobs of one task.
C15_ScanIgnoresPendingCalls ==
    [][\A c \in Callers : \A task \in TaskIds :
         EnqueueScan(c, task) =>
            (q_callers'[c].pc = "passed" <=> ActiveJobs(task) = {})]_vars

C15_Witness ==
    \E task \in TaskIds : Cardinality(ActiveJobs(task)) = 2

\* C16: a fetch or a cancel of an id answers "not found", and changes no
\* job record, exactly when no job has the id or the job is not tagged;
\* otherwise the fetch answers with the status of that job and changes
\* nothing, and the cancel removes that record and no other, after which
\* the id is unknown (ids are never used again).
C16_FetchAndCancel ==
    /\ [](\A id \in DOMAIN q_jobs : id < q_next_id)
    /\ [][\A pk \in JobIds :
            /\ Fetch(pk) =>
                  /\ q_jobs' = q_jobs
                  /\ q_response'.outcome = "not found" <=> ~Known(pk)
                  /\ Known(pk) =>
                        /\ q_response'.outcome = "ok"
                        /\ q_response'.status = q_jobs[pk].status
            /\ Destroy(pk) =>
                  /\ q_response'.outcome = "not found" <=> ~Known(pk)
                  /\ ~Known(pk) => q_jobs' = q_jobs
                  /\ Known(pk) =>
                        /\ q_response'.outcome = "ok"
                        /\ DOMAIN q_jobs' = DOMAIN q_jobs \ {pk}
                        /\ \A id \in DOMAIN q_jobs' : q_jobs'[id] = q_jobs[id]]_vars

\* A job was cancelled while another, untagged one stays in the queue
C16_Witness ==
    /\ q_response.op = "destroy"
    /\ q_response.outcome = "ok"
    /\ q_response.pk \notin DOMAIN q_jobs
    /\ \E id \in DOMAIN q_jobs : ~q_jobs[id].lambda

\* The known jobs of the task that are finished, and those that failed
TerminalJobs(task, status) ==
    {id \in DOMAIN q_jobs :
        /\ q_jobs[id].lambda
        /\ q_jobs[id].task = task
        /\ q_jobs[id].status = status}

\* C33: a finished or failed job of a task (a cancelled one has no record
\* left) never makes the scan of an enqueue for the task find a conflict:
\* the scan finds one only if a known job of the task is queued, deferred,
\* scheduled or started; an enqueue made when there is none passes the scan
\* without an answer of conflict, and its submission creates a queued job
\* of the task.
C33_TerminalJobsDoNotBlock ==
    /\ [](\A task \in TaskIds :
            conflict(q_jobs, task) => ActiveJobs(task) # {})
    /\ [][\A c \in Callers : \A task \in TaskIds :
            (EnqueueScan(c, task) /\ ActiveJobs(task) = {}) =>
                /\ q_callers'[c] = [pc |-> "passed", task |-> task]
                /\ q_response' = q_response
                /\ q_jobs' = q_jobs]_vars
    /\ [][\A c \in Callers :
            EnqueueSubmit(c) =>
                /\ DOMAIN q_jobs' = DOMAIN q_jobs \cup {q_next_id}
                /\ q_next_id \notin DOMAIN q_jobs
                /\ q_jobs'[q_next_id] = [task |-> q_callers[c].task,
                                         status |-> "queued", lambda |-> TRUE]
                /\ q_response'.outcome = "ok"]_vars

\* A task with a failed job and a finished job, for which the last enqueue
\* was admitted and left an active job
C33_Witness ==
    /\ ~q_interleaved
    /\ \E task \in TaskIds :
          /\ TerminalJobs(task, "failed") # {}
          /\ TerminalJobs(task, "finished") # {}
          /\ q_response.op = "enqueue"
          /\ q_response.outcome = "ok"
          /\ q_response.pk \in ActiveJobs(task)

====
